---- MODULE Spec2Model ----
(***************************************************************************)
(* Watermark removal engine of pdf-watermark-remove: the strategy          *)
(* selection of WatermarkRemover.remove_watermark, the image-signature     *)
(* strategy (XRefImageRemovalStrategy) and the text-pattern strategy       *)
(* (CommonStringRemovalStrategy), over documents whose content streams     *)
(* are byte sequences.  Bytes are one-character strings; offsets are       *)
(* 0-based as in the Python source.                                        *)
(***************************************************************************)
EXTENDS Integers, Sequences, FiniteSets, TLC

VARIABLES
    config,       \* Config values used by the engine (src/config.py)
    input_file,   \* the document stored at the input path, or NoFile
    output_file,  \* the document stored at the output path, or NoFile
    doc,          \* the document handle opened by the running strategy, or NoDoc
    pc,           \* position inside remove_watermark / strategy.remove
    strategy,     \* strategy selected by remove_watermark
    page_idx,     \* loop index of the detection scan
    counter,      \* frequency table of the detection scan (insertion order)
    most_common,  \* winning run returned by the detection
    freq,         \* its count
    target_str,   \* winning run converted to text
    task_idx,     \* index of the next per-page removal task to run
    target_xref,  \* result of _find_watermark_xref
    reads,        \* stream reads made by the detection scan
    writes,       \* update_stream calls made by the removal tasks, in order
    deleted,      \* delete_image calls made (page, xref)
    result,       \* value returned by remove_watermark, or NoResult
    error,        \* exception raised to the caller, or NoError
    run,          \* number of the invocation (a host may re-invoke on the output)
    history,      \* outcome of the earlier invocations
    suffix,       \* Path(input_file).suffix
    faults,       \* xrefs for which the host's update_stream raises
    opens,        \* fitz.open calls made by the invocation
    failed,       \* pages whose removal task raised, in the order they ran
    progress,     \* the ProgressCallback object of the invocation
    events,       \* (status, progress) calls the host's callback has received
    args,         \* arguments of the last ProgressCallback.update call made by a host
    environ,      \* os.environ: the environment variables that are set
    _instance,    \* Config._instance and its _config
    returned,     \* the last Config(config_file) call and what it returned
    scan_content, \* content: the content stream under the scanner's while loop
    scan_i,       \* i: the cursor of the while loop
    cont,         \* cont: the content of page 0 read by the first script
    analysis,     \* what most_frequent_substring_with_pattern did with it
    pending,      \* page tasks handed to asyncio.gather that have not finished
    requests,     \* the server's uploads: the locals of each _process_pdf_file call
    current_jobs, \* the server's current_jobs
    data_dir,     \* the files of the server's data directory, by path
    response,     \* what the last download request was answered with
    batch         \* the command line's batch: its files, its tasks, its results

\* the state of the removal engine
engine == <<config, input_file, output_file, doc, pc, strategy, page_idx, counter,
            most_common, freq, target_str, task_idx, target_xref, reads, writes,
            deleted, result, error, run, history, suffix, faults, opens, failed>>

\* the state of the process-wide configuration
process == <<environ, _instance, returned>>

\* the state of the scanner's while loop
scanner == <<scan_content, scan_i>>

\* the state of the first script, remove_wartermark.py
legacy == <<cont, analysis>>

\* the tasks of a removal phase whose order is left open
pool == <<pending>>

\* the state of the HTTP server
server == <<requests, current_jobs, data_dir, response>>

\* the state outside one sequential run of the engine
\* the state of a batch run of the command line
cli == <<batch>>

hosts == <<legacy, pool, server, cli>>

vars == <<engine, progress, events, args, process, scanner, hosts>>

----------------------------------------------------------------------------
(* Bounds of the model *)

\* pieces per content stream of a single-stream document
MaxPieces == 3
\* items per content stream of a two-stream document
MaxItems == 2
\* image descriptors on page 0
MaxImages == 2
\* invocations of the pipeline on one document (the second is on the output)
MaxRuns == 2
\* update calls a host makes on a ProgressCallback of its own
MaxUpdates == 3
\* highest current_step such a host reaches
MaxStep == 10
\* chunks the content of page 0 is made of in the first script
MaxChunks == 3
\* uploads a server receives
MaxJobs == 2

\* the most files a batch of the command line holds
MaxFiles == 2

----------------------------------------------------------------------------
(* Byte strings *)

\* no file at a path; no open document handle
NoFile ==
    [present |-> FALSE, valid |-> FALSE, producer |-> <<>>, pages |-> <<>>,
     streams |-> <<>>]
NoDoc == NoFile

\* a file that exists and that fitz.open rejects (tests.py: "This is not a PDF file")
Damaged == [NoFile EXCEPT !.present = TRUE]

\* values of result: nothing returned yet, True, False
NoResult == "NoResult"
True == "True"
False == "False"

\* no exception raised
NoError == [type |-> "None", message |-> <<>>]

\* None where the source holds Optional[int] (no xref is negative)
None == -1

\* None where the source holds bytes or str (like b"", it is falsy)
NoBytes == <<>>

Min(S) == CHOOSE x \in S : \A y \in S : x <= y

\* s[a:b] for 0 <= a <= b; an end behind the last byte is the last byte
Slice(s, a, b) == SubSeq(s, a + 1, IF b > Len(s) THEN Len(s) ELSE b)

\* pat occurs in s at offset k
OccursAt(s, pat, k) ==
    /\ k >= 0
    /\ k + Len(pat) <= Len(s)
    /\ \A j \in 1..Len(pat) : s[k + j] = pat[j]

\* bytes.find(pat, i): lowest offset >= i at which pat occurs, or -1
find(s, pat, i) ==
    LET hits == {k \in i..(Len(s) - Len(pat)) : OccursAt(s, pat, k)}
    IN  IF hits = {} THEN -1 ELSE Min(hits)

\* pat in s
Contains(s, pat) == find(s, pat, 0) # -1

\* characters matched by \s and removed by str.strip()
Whitespace == {" ", "\n"}

RECURSIVE lstrip(_)
lstrip(s) ==
    IF s # <<>> /\ Head(s) \in Whitespace THEN lstrip(Tail(s)) ELSE s

RECURSIVE rstrip(_)
rstrip(s) ==
    IF s # <<>> /\ s[Len(s)] \in Whitespace
    THEN rstrip(SubSeq(s, 1, Len(s) - 1))
    ELSE s

\* most_common.decode('latin1').strip(): latin1 maps each byte to one
\* character, strip removes leading and trailing whitespace
decode_strip(b) == rstrip(lstrip(b))

\* str.replace(old, ""): every non-overlapping occurrence of old, left to right
RECURSIVE replace_from(_, _, _)
replace_from(s, old, i) ==
    LET k == find(s, old, i)
    IN  IF k = -1 THEN Slice(s, i, Len(s))
        ELSE Slice(s, i, k) \o replace_from(s, old, k + Len(old))

replace(s, old) == replace_from(s, old, 0)

----------------------------------------------------------------------------
(* Pattern scanner: CommonStringRemovalStrategy._find_most_frequent_text_tj_substring *)

\* the three opening markers, their terminators, and the number of bytes the
\* source takes from the start of the terminator (end+4, end+4, end+5)
Markers == <<
    [open |-> "(", term |-> <<")", " ", "T", "j">>, take |-> 4],
    [open |-> "<", term |-> <<">", " ", "T", "j">>, take |-> 4],
    [open |-> "[", term |-> <<"]", " ", "T", "J">>, take |-> 5] >>

\* counter[substring] += 1; a new key goes last (dict insertion order);
\* first remembers the scan position of the key's first occurrence
CounterAdd(cnt, key, pos) ==
    IF \E k \in 1..Len(cnt) : cnt[k].key = key
    THEN [k \in 1..Len(cnt) |->
             IF cnt[k].key = key
             THEN [cnt[k] EXCEPT !.count = @ + 1]
             ELSE cnt[k]]
    ELSE Append(cnt, [key |-> key, count |-> 1, first |-> pos])

\* variant: the run recorded whatever its length
RecordAny(cnt, substring, pos, min_length) == CounterAdd(cnt, substring, pos)

\* the run recorded only when it is long enough
Record(cnt, substring, pos, min_length) ==
    IF Len(substring) >= min_length THEN CounterAdd(cnt, substring, pos) ELSE cnt

\* variant: the cursor passes the run only when the run was recorded
ScanStepRecordedOnly(content, i, cnt, where, min_length, window) ==
    LET ms == {k \in 1..Len(Markers) : Markers[k].open = content[i + 1]}
    IN  IF ms = {} THEN [i |-> i + 1, counter |-> cnt]
        ELSE
            LET m == Markers[Min(ms)]
                end == find(content, m.term, i)
                stop == end + m.take
            IN  IF end # -1 /\ end - i < window
                       /\ Len(Slice(content, i, stop)) >= min_length
                THEN [i |-> stop,
                      counter |-> Record(cnt, Slice(content, i, stop),
                                         <<where[1], where[2], i>>, min_length)]
                ELSE [i |-> i + 1, counter |-> cnt]

\* variant: the cursor stays where no terminator is found in the window
ScanStepStuck(content, i, cnt, where, min_length, window) ==
    LET ms == {k \in 1..Len(Markers) : Markers[k].open = content[i + 1]}
    IN  IF ms = {} THEN [i |-> i + 1, counter |-> cnt]
        ELSE
            LET m == Markers[Min(ms)]
                end == find(content, m.term, i)
                stop == end + m.take
            IN  IF end # -1 /\ end - i < window
                THEN [i |-> stop,
                      counter |-> Record(cnt, Slice(content, i, stop),
                                         <<where[1], where[2], i>>, min_length)]
                ELSE [i |-> i, counter |-> cnt]

\* one iteration of the while loop, at cursor i < len(content): the cursor
\* and the table it leaves
ScanStep(content, i, cnt, where, min_length, window) ==
    LET ms == {k \in 1..Len(Markers) : Markers[k].open = content[i + 1]}
    IN  IF ms = {} THEN [i |-> i + 1, counter |-> cnt]
        ELSE
            LET m == Markers[Min(ms)]
                end == find(content, m.term, i)
                stop == end + m.take
            IN  IF end # -1 /\ end - i < window
                THEN [i |-> stop,
                      counter |-> Record(cnt, Slice(content, i, stop),
                                         <<where[1], where[2], i>>, min_length)]
                ELSE [i |-> i + 1, counter |-> cnt]

\* the while loop over one content stream
RECURSIVE ScanStream(_, _, _, _, _, _)
ScanStream(content, i, cnt, where, min_length, window) ==
    IF i >= Len(content) THEN cnt
    ELSE LET st == ScanStep(content, i, cnt, where, min_length, window)
         IN  ScanStream(content, st.i, st.counter, where, min_length, window)

\* the loop over the content streams of one page
RECURSIVE ScanPage(_, _, _, _, _, _)
ScanPage(d, p, j, cnt, min_length, window) ==
    IF j > Len(d.pages[p + 1].contents) THEN cnt
    ELSE ScanPage(d, p, j + 1,
                  ScanStream(d.streams[d.pages[p + 1].contents[j]], 0, cnt,
                             <<p, j>>, min_length, window),
                  min_length, window)

\* counter.most_common(1)[0]: the first entry, in insertion order, of maximal count
RECURSIVE most_common_from(_, _, _)
most_common_from(cnt, k, best) ==
    IF k > Len(cnt) THEN best
    ELSE most_common_from(cnt, k + 1,
                          IF cnt[k].count > best.count THEN cnt[k] ELSE best)

\* variant: a later entry of equal count replaces the earlier one
RECURSIVE last_common_from(_, _, _)
last_common_from(cnt, k, best) ==
    IF k > Len(cnt) THEN best
    ELSE last_common_from(cnt, k + 1,
                          IF cnt[k].count >= best.count THEN cnt[k] ELSE best)

most_common_last(cnt) == last_common_from(cnt, 2, cnt[1])

most_common_1(cnt) == most_common_from(cnt, 2, cnt[1])

----------------------------------------------------------------------------
(* Block removal: CommonStringRemovalStrategy._remove_watermark_from_page *)

\* offsets e >= k at which a Q stands
RestoreAt(s, k) == {e \in k..(Len(s) - 1) : s[e + 1] = "Q"}

\* offsets k >= p at which q\s+.*?Q matches: q, one whitespace at least,
\* and a Q somewhere behind it
BlockStarts(s, p) ==
    {k \in p..(Len(s) - 2) :
        /\ s[k + 1] = "q"
        /\ s[k + 2] \in Whitespace
        /\ RestoreAt(s, k + 2) # {}}

\* re.findall(r"q\s+.*?Q", raw_str, flags=re.DOTALL): the non-overlapping
\* matches from left to right, each ending at the first Q behind its q
RECURSIVE findall_from(_, _)
findall_from(s, p) ==
    IF BlockStarts(s, p) = {} THEN <<>>
    ELSE LET k == Min(BlockStarts(s, p))
             e == Min(RestoreAt(s, k + 2))
         IN  <<Slice(s, k, e + 1)>> \o findall_from(s, e + 1)

findall(s) == findall_from(s, 0)

\* for block in blocks: if target_str in block: replace, replaced += 1
RECURSIVE RemoveBlocks(_, _, _, _)
RemoveBlocks(st, blocks, k, target) ==
    IF k > Len(blocks) THEN st
    ELSE RemoveBlocks(
            IF Contains(blocks[k], target)
            THEN [raw_str |-> replace(st.raw_str, blocks[k]),
                  replaced |-> st.replaced + 1]
            ELSE st,
            blocks, k + 1, target)

\* if replaced: doc.update_stream(xref, ...)
ShouldUpdate(replaced, before, after) == replaced # 0

\* for xref in page.get_contents(): one pass over the streams of page p;
\* st carries the document, the running count and the writes made; an
\* update_stream that raises (xref in broken) ends the pass
RECURSIVE RemoveFromStreams(_, _, _, _, _)
RemoveFromStreams(st, p, j, target, broken) ==
    IF j > Len(st.doc.pages[p + 1].contents) THEN st
    ELSE
        LET xref == st.doc.pages[p + 1].contents[j]
            raw == st.doc.streams[xref]
            r == RemoveBlocks([raw_str |-> raw, replaced |-> st.replaced],
                              findall(raw), 1, target)
        IN  IF ShouldUpdate(r.replaced, raw, r.raw_str)
            THEN IF xref \in broken
                 THEN [st EXCEPT !.replaced = r.replaced, !.raised = TRUE]
                 ELSE RemoveFromStreams(
                        [doc |-> [st.doc EXCEPT !.streams[xref] = r.raw_str],
                         replaced |-> r.replaced,
                         writes |-> Append(st.writes, xref),
                         raised |-> FALSE],
                        p, j + 1, target, broken)
            ELSE RemoveFromStreams([st EXCEPT !.replaced = r.replaced],
                                   p, j + 1, target, broken)

\* variant: every task works on the first page
remove_from_first_page(d, page_number, target, broken) ==
    RemoveFromStreams([doc |-> d, replaced |-> 0, writes |-> <<>>, raised |-> FALSE],
                      0, 1, target, broken)

_remove_watermark_from_page(d, page_number, target, broken) ==
    RemoveFromStreams([doc |-> d, replaced |-> 0, writes |-> <<>>, raised |-> FALSE],
                      page_number, 1, target, broken)

----------------------------------------------------------------------------
(* Image matcher: XRefImageRemovalStrategy._find_watermark_xref *)

\* variant: the height is not compared
SameWidth(image_info, pattern) == image_info.width = pattern.width

\* image_info["width"] == pattern["width"] and image_info["height"] == pattern["height"]
SameSize(image_info, pattern) ==
    /\ image_info.width = pattern.width
    /\ image_info.height = pattern.height

\* for pattern in self.patterns
RECURSIVE MatchesFrom(_, _, _)
MatchesFrom(image_info, patterns, k) ==
    IF k > Len(patterns) THEN FALSE
    ELSE IF SameSize(image_info, patterns[k]) THEN TRUE
    ELSE MatchesFrom(image_info, patterns, k + 1)

\* for image_info in image_list
RECURSIVE FindFrom(_, _, _)
FindFrom(image_list, patterns, i) ==
    IF i > Len(image_list) THEN None
    ELSE IF MatchesFrom(image_list[i], patterns, 1) THEN image_list[i].xref
    ELSE FindFrom(image_list, patterns, i + 1)

_find_watermark_xref(page, patterns) == FindFrom(page.images, patterns, 1)

\* "not target_xref"
Falsy(x) == x = None \/ x = 0

\* page.delete_image(xref): the image is replaced wherever it is used
delete_image(d, xref) ==
    [d EXCEPT !.pages =
        [p \in 1..Len(d.pages) |->
            [d.pages[p] EXCEPT !.images =
                SelectSeq(d.pages[p].images, LAMBDA im : im.xref # xref)]]]

----------------------------------------------------------------------------
(* Strategy selection *)

VersionStr == <<"V", "e", "r", "s", "i", "o", "n">>

\* 'Version' in doc.metadata.get('producer', '')
UsesXRef(producer) == Contains(producer, VersionStr)

\* XRefImageRemovalStrategy.can_handle: any(pattern in producer ...)
can_handle(producer, patterns) ==
    \E k \in 1..Len(patterns) : Contains(producer, patterns[k])

----------------------------------------------------------------------------
(* Configurations and documents the model explores *)

\* Config.DEFAULT_CONFIG
MIN_PATTERN_LENGTH == 30
PATTERN_SEARCH_WINDOW == 300
MAX_CONCURRENT_PAGES == 8
XREF_PRODUCER_PATTERNS == <<VersionStr>>

Size(w, h) == [width |-> w, height |-> h]

WATERMARK_PATTERNS == <<Size(2360, 1640), Size(1640, 2360)>>

DefaultConfig ==
    [XREF_PRODUCER_PATTERNS |-> XREF_PRODUCER_PATTERNS,
     WATERMARK_PATTERNS |-> WATERMARK_PATTERNS,
     MIN_PATTERN_LENGTH |-> MIN_PATTERN_LENGTH,
     PATTERN_SEARCH_WINDOW |-> PATTERN_SEARCH_WINDOW]

\* sequences of at most n elements of S, concatenated
RECURSIVE StreamsOf(_, _)
StreamsOf(S, n) ==
    IF n = 0 THEN {<<>>}
    ELSE LET prev == StreamsOf(S, n - 1)
         IN  prev \cup {s \o x : s \in prev, x \in S}

\* sequences of at most n elements of S
RECURSIVE ListsOf(_, _)
ListsOf(S, n) ==
    IF n = 0 THEN {<<>>}
    ELSE LET prev == ListsOf(S, n - 1)
         IN  prev \cup {Append(s, x) : s \in prev, x \in S}

RunA == <<"(", "w", ")", " ", "T", "j">>
RunB == <<"<", "o", ">", " ", "T", "j">>
RunC == <<"[", "o", "]", " ", "T", "J">>
Save == <<"q", " ">>
Restore == <<"Q">>

\* what a single-stream document is built from
Pieces == {Save, Restore, RunA, RunB, RunC, <<"x">>, <<"(">>}

\* what the streams of a two-stream document are built from
Items == {Save \o RunA \o Restore, Save \o RunB \o Restore, RunA, RunB}

Page(contents, images) == [contents |-> contents, images |-> images]

Document(producer, pages, streams) ==
    [present |-> TRUE, valid |-> TRUE, producer |-> producer, pages |-> pages,
     streams |-> streams]

\* values of MIN_PATTERN_LENGTH and PATTERN_SEARCH_WINDOW a configuration
\* file sets, small enough for the runs above to fall on both sides
ScanConfigs ==
    {[DefaultConfig EXCEPT !.MIN_PATTERN_LENGTH = c[1], !.PATTERN_SEARCH_WINDOW = c[2]] :
        c \in {<<6, 3>>, <<6, 4>>, <<7, 4>>}}

\* one page, one stream
OneStreamDocs ==
    {Document(<<>>, <<Page(<<1>>, <<>>)>>, (1 :> s)) : s \in StreamsOf(Pieces, MaxPieces)}

\* two streams: on two pages, or both on one page
TwoStreamDocs ==
    {Document(<<>>, pgs, (1 :> s1) @@ (2 :> s2)) :
        pgs \in {<<Page(<<1>>, <<>>), Page(<<2>>, <<>>)>>, <<Page(<<1, 2>>, <<>>)>>},
        s1 \in StreamsOf(Items, MaxItems),
        s2 \in StreamsOf(Items, MaxItems)}

\* one stream used by two pages
SharedStreamDocs ==
    {Document(<<>>, <<Page(<<1>>, <<>>), Page(<<1>>, <<>>)>>, (1 :> s)) :
        s \in StreamsOf(Items, MaxItems)}

\* one stream A q...Q B q...(run)...Q C
FormParts == {<<>>, <<"x">>, Save, Restore}

FormDocs ==
    {Document(<<>>, <<Page(<<1>>, <<>>)>>,
              (1 :> a \o Save \o <<"x">> \o Restore \o b \o Save \o RunA \o Restore \o c)) :
        a \in FormParts, b \in FormParts, c \in FormParts}

TextScenarios ==
    {[config |-> c, file |-> d] : c \in ScanConfigs, d \in OneStreamDocs}
    \cup {[config |-> c, file |-> d] :
            c \in {[DefaultConfig EXCEPT !.MIN_PATTERN_LENGTH = 6,
                                         !.PATTERN_SEARCH_WINDOW = 4]},
            d \in TwoStreamDocs \cup SharedStreamDocs \cup FormDocs}

\* image descriptors: the xref is 0 for an image the host finds no xref for
ImageSizes ==
    {Size(2360, 1640), Size(2360, 1641), Size(2361, 1640), Size(1640, 2360),
     Size(1640, 1640)}

Images ==
    {[xref |-> x, width |-> sz.width, height |-> sz.height] : x \in {0, 7}, sz \in ImageSizes}

SignatureLists ==
    {WATERMARK_PATTERNS, <<Size(2360, 1641)>>, <<Size(1640, 1640), Size(2361, 1640)>>}

ImageScenarios ==
    {[config |-> [DefaultConfig EXCEPT !.WATERMARK_PATTERNS = sigs],
      file |-> Document(pr,
                        <<Page(<<1>>, imgs), Page(<<2>>, <<>>)>>,
                        (1 :> RunA) @@ (2 :> <<>>))] :
        sigs \in SignatureLists,
        pr \in {VersionStr, <<"x">> \o VersionStr},
        imgs \in ListsOf(Images, MaxImages)}

OtherStr == <<"F", "o", "x">>

TriggerLists == {XREF_PRODUCER_PATTERNS, <<OtherStr>>, <<OtherStr, VersionStr>>, <<>>}

Producers ==
    {pre \o core \o post :
        pre \in {<<>>, <<"x">>},
        post \in {<<>>, <<"x">>},
        core \in {<<>>, VersionStr, Slice(VersionStr, 0, 6), Slice(VersionStr, 1, 7),
                  <<"v">> \o Slice(VersionStr, 1, 7), OtherStr}}

\* documents of every producer under every trigger list, with and without pages
RoutingScenarios ==
    {[config |-> [DefaultConfig EXCEPT !.XREF_PRODUCER_PATTERNS = t,
                                       !.MIN_PATTERN_LENGTH = 6],
      file |-> Document(pr, pgs, (1 :> Save \o RunA \o Restore))] :
        t \in TriggerLists,
        pr \in Producers,
        pgs \in {<<>>, <<Page(<<1>>, <<[xref |-> 7, width |-> 2360, height |-> 1640]>>)>>}}

\* the run (WATERMARK TEXT) Tj, 19 bytes, and a run of the same shape of 34 bytes
Wm == <<"W", "A", "T", "E", "R", "M", "A", "R", "K", " ", "T", "E", "X", "T">>
WatermarkRun == <<"(">> \o Wm \o <<")", " ", "T", "j">>
LongRun == <<"(">> \o Wm \o <<" ">> \o Wm \o <<")", " ", "T", "j">>

\* content found on page k only: plain bytes, a short text run, a long text
\* run, a save operator that is never restored
Unrelated(k) ==
    {<<"x", ToString(k)>>,
     <<"(", ToString(k), ")", " ", "T", "j">>,
     <<"(", ToString(k)>> \o Wm \o <<" ">> \o Wm \o <<")", " ", "T", "j">>,
     <<"q", " ", ToString(k)>>}

\* three pages, each with the shared run in its own q...Q block and content of
\* its own before or behind the block
OwnContent(k, kind) == CHOOSE u \in Unrelated(k) : Len(u) = kind

ExampleDoc(shared, kind, before) ==
    LET own(k) == OwnContent(k, kind)
        stream(k) == IF before THEN own(k) \o Save \o shared \o Restore
                               ELSE Save \o shared \o Restore \o own(k)
    IN  Document(<<>>,
                 <<Page(<<1>>, <<>>), Page(<<2>>, <<>>), Page(<<3>>, <<>>)>>,
                 (1 :> stream(1)) @@ (2 :> stream(2)) @@ (3 :> stream(3)))

ExampleDocs ==
    {ExampleDoc(shared, Len(u), before) :
        shared \in {WatermarkRun, LongRun}, u \in Unrelated(1), before \in BOOLEAN}

ExampleScenarios == {[config |-> DefaultConfig, file |-> d] : d \in ExampleDocs}

PdfSuffix == <<".", "p", "d", "f">>

\* suffixes of the input path
Suffixes ==
    {PdfSuffix, <<".", "P", "D", "F">>, <<".", "P", "d", "f">>, <<".", "t", "x", "t">>,
     <<".", "p", "d", "f", "x">>, <<".", "p", "d">>, <<>>}

\* a document of three pages, each with the run in a block of its own stream
ThreePageDoc ==
    Document(<<>>,
             <<Page(<<1>>, <<>>), Page(<<2>>, <<>>), Page(<<3>>, <<>>)>>,
             (1 :> Save \o RunA \o Restore) @@ (2 :> Save \o RunA \o Restore)
                @@ (3 :> <<"x">> \o Save \o RunA \o Restore))

\* a document of one page with two streams, the run in a block of each
TwoStreamPageDoc ==
    Document(<<>>, <<Page(<<1, 2>>, <<>>)>>,
             (1 :> Save \o RunA \o Restore) @@ (2 :> Save \o RunA \o Restore))

ShortRunConfig ==
    [DefaultConfig EXCEPT !.MIN_PATTERN_LENGTH = 6, !.PATTERN_SEARCH_WINDOW = 4]

\* an input path with the suffix .pdf and a host whose update_stream works
Scenario(cfg, file) == [config |-> cfg, file |-> file, suffix |-> PdfSuffix, faults |-> {}]

\* paths that exist or not, with every suffix
PathScenarios ==
    {[Scenario(ShortRunConfig, f) EXCEPT !.suffix = sfx] :
        f \in {NoFile, Damaged, TwoStreamPageDoc}, sfx \in Suffixes}

\* streams the host refuses to update
FaultScenarios ==
    {[Scenario(ShortRunConfig, d) EXCEPT !.faults = b] :
        d \in {ThreePageDoc, TwoStreamPageDoc}, b \in SUBSET {1, 2, 3}}

Scenarios ==
    {Scenario(sc.config, sc.file) :
        sc \in TextScenarios \cup ImageScenarios \cup RoutingScenarios
                \cup ExampleScenarios}
    \cup PathScenarios \cup FaultScenarios

----------------------------------------------------------------------------
(* Exceptions *)

Exception(type, message) == [type |-> type, message |-> message]

\* raise InvalidPDFError("PDF has no pages")
NoPages == Exception("InvalidPDFError", <<"PDF has no pages">>)

\* except Exception as e: raise PDFProcessingError(f"<prefix>: {str(e)}")
Wrapped(prefix, e) == Exception("PDFProcessingError", <<prefix>> \o e.message)

----------------------------------------------------------------------------
(* Progress tracker: ProgressCallback and the callbacks handed to a strategy *)

\* ProgressCallback.__init__
ProgressCallback(callback, total_steps) ==
    [callback |-> callback, total_steps |-> total_steps,
     current_step |-> 0, current_status |-> ""]

\* variant: "if step:", which takes the step 0 for no step
updateTruthy(self, status, step, increment) ==
    [self EXCEPT !.current_step = IF step # None /\ step # 0 THEN step ELSE @ + increment,
                 !.current_status = IF status # "" THEN status ELSE @]

\* ProgressCallback.update, up to the call of the callback: an absolute step
\* (step is not None) replaces current_step, else the increment is added; a
\* non-empty status replaces current_status
update(self, status, step, increment) ==
    [self EXCEPT !.current_step = IF step # None THEN step ELSE @ + increment,
                 !.current_status = IF status # "" THEN status ELSE @]

\* progress = self.current_step / self.total_steps, kept as the pair
\* (numerator, denominator)
Fraction(self) == <<self.current_step, self.total_steps>>

\* if self.callback: self.callback(self.current_status, progress)
call(evs, self) ==
    IF self.callback
    THEN Append(evs, [status |-> self.current_status, progress |-> Fraction(self)])
    ELSE evs

\* one call of progress.update(status, step): the tracker and what the host received
Report(st, status, step) ==
    LET self == update(st.progress, status, step, 1)
    IN  [progress |-> self, events |-> call(st.events, self)]

\* variant: the base of the strategy's share is left out
HostStepNoBase(p) == (80 * p[1]) \div p[2]

\* 15 + int(p * 80) for a fraction p = p[1] / p[2] >= 0
HostStep(p) == 15 + (80 * p[1]) \div p[2]

\* lambda s, p: progress.update(s, 15 + int(p * 80))
StrategyReport(st, status, p) == Report(st, status, HostStep(p))

\* 0.1 + p * 0.3 for p = p[1] / p[2]
DetectionFraction(p) == <<p[2] + 3 * p[1], 10 * p[2]>>

\* 0.4 + p * 0.5 for p = p[1] / p[2]
RemovalFraction(p) == <<4 * p[2] + 5 * p[1], 10 * p[2]>>

\* f"Analyzing page {page_idx+1}/{total_pages}", f"Processing page {page_number+1}/{total_pages}"
PageStatus(prefix, page_number, total_pages) ==
    prefix \o ToString(page_number + 1) \o "/" \o ToString(total_pages)

\* the tracker and the host's log as one value
Tracker == [progress |-> progress, events |-> events]

----------------------------------------------------------------------------
(* Input path *)

\* str.lower() on the characters a suffix is made of
lower_char(c) ==
    CASE c = "P" -> "p"
      [] c = "D" -> "d"
      [] c = "F" -> "f"
      [] c = "T" -> "t"
      [] c = "X" -> "x"
      [] OTHER -> c

lower(s) == [k \in 1..Len(s) |-> lower_char(s[k])]

\* variant: the suffix is compared as it is written
HasPdfSuffixExact(sfx) == sfx = PdfSuffix

\* input_path.suffix.lower() == ".pdf"
HasPdfSuffix(sfx) == lower(sfx) = PdfSuffix

----------------------------------------------------------------------------
(* The state machine *)

\* an engine that has not been invoked, for the input of scenario sc
Fresh(sc) ==
    /\ config = sc.config
    /\ input_file = sc.file
    /\ suffix = sc.suffix
    /\ faults = sc.faults
    /\ output_file = NoFile
    /\ doc = NoDoc
    /\ pc = "idle"
    /\ strategy = "none"
    /\ page_idx = 0
    /\ counter = <<>>
    /\ most_common = NoBytes
    /\ freq = 0
    /\ target_str = NoBytes
    /\ task_idx = 0
    /\ target_xref = None
    /\ reads = {}
    /\ writes = <<>>
    /\ deleted = <<>>
    /\ result = NoResult
    /\ error = NoError
    /\ run = 1
    /\ history = <<>>
    /\ opens = 0
    /\ failed = <<>>

\* no update call made by a host
NoArgs == [status |-> "", step |-> None, increment |-> 1]

\* a process in which Config has not been called
NoCall == [made |-> FALSE]
NoInstance == [created |-> FALSE]

ProcessStart ==
    /\ environ = {}
    /\ _instance = NoInstance
    /\ returned = NoCall

\* the first script has not been started
NotCalled == [called |-> FALSE]

LegacyIdle ==
    /\ cont = <<>>
    /\ analysis = NotCalled

\* no task handed to asyncio.gather
PoolIdle == pending = {}

\* file names of uploads, as the browser sends them
Filenames ==
    {<<"a", ".", "p", "d", "f">>, <<"b", ".", "p", "d", "f">>,
     <<".", ".", "/", "a", ".", "p", "d", "f">>, <<"a", ".", "P", "D", "F">>,
     <<"a", ".", "t", "x", "t">>}

Max(S) == CHOOSE x \in S : \A y \in S : x >= y

\* '.' in filename and filename.rsplit('.', 1)[1].lower() == 'pdf'
_is_allowed_file(filename) ==
    LET dots == {k \in 1..Len(filename) : filename[k] = "."}
    IN  /\ dots # {}
        /\ lower(SubSeq(filename, Max(dots) + 1, Len(filename))) = <<"p", "d", "f">>

\* "_".join(filename.split()): each run of whitespace inside becomes one "_"
RECURSIVE join_words(_)
join_words(s) ==
    IF s = <<>> THEN <<>>
    ELSE IF Head(s) \in Whitespace THEN <<"_">> \o join_words(lstrip(s))
    ELSE <<Head(s)>> \o join_words(Tail(s))

\* str.strip("._")
RECURSIVE strip_dots(_)
strip_dots(s) ==
    IF s # <<>> /\ Head(s) \in {".", "_"} THEN strip_dots(Tail(s))
    ELSE IF s # <<>> /\ s[Len(s)] \in {".", "_"} THEN strip_dots(SubSeq(s, 1, Len(s) - 1))
    ELSE s

\* werkzeug's secure_filename on names of letters, dots and slashes: path
\* separators become spaces, the words are joined by "_", dots and
\* underscores at both ends are stripped
secure_filename(filename) ==
    strip_dots(join_words(decode_strip(
        [k \in 1..Len(filename) |-> IF filename[k] = "/" THEN " " ELSE filename[k]])))

\* os.path.join(self.data_dir, f"processed_{secure_filename(filename)}")
OutputPath(filename) == <<"processed_">> \o secure_filename(filename)

Paths == {OutputPath(filename) : filename \in Filenames}

\* no file at a path of the data directory; the file a job's processing wrote
NoOutput == [job |-> 0, file |-> NoFile]
Written(job_id, file) == [job |-> job_id, file |-> file]

\* no entry in current_jobs; no output_path (None)
NoJob == [id |-> 0, status |-> "none", output_path |-> <<>>, error |-> NoError]
NoPath == <<>>

\* no download request answered
NoResponse == [code |-> 0, job_id |-> 0, body |-> NoOutput]

\* a server that has received nothing
ServerIdle ==
    /\ requests = <<>>
    /\ current_jobs = [job_id \in 1..MaxJobs |-> NoJob]
    /\ data_dir = [path \in Paths |-> NoOutput]
    /\ response = NoResponse

\* a file of a batch the removal was not called on
NotRun == [ran |-> FALSE]

\* a task of the parallel loop: not finished, finished with a value
Unfinished == [kind |-> "unfinished"]

\* no batch handed to the command line
NoBatch ==
    [mode |-> "none", files |-> <<>>, parallel |-> 1, overwrite |-> FALSE, i |-> 0,
     ran |-> <<>>, tasks |-> <<>>, awaited |-> {}, tally |-> <<>>,
     results |-> [total |-> 0, success |-> 0, skipped |-> 0, failed |-> 0]]

BatchIdle == batch = NoBatch

\* nothing runs outside the engine
HostsIdle == LegacyIdle /\ PoolIdle /\ ServerIdle /\ BatchIdle

\* no scan under way
ScannerIdle ==
    /\ scan_content = <<>>
    /\ scan_i = 0

Init ==
    /\ \E sc \in Scenarios : Fresh(sc)
    /\ progress = ProgressCallback(TRUE, 100)
    /\ events = <<>>
    /\ args = NoArgs
    /\ ProcessStart
    /\ HostsIdle
    /\ ScannerIdle

\* remove_watermark: the tracker is created and the input file is validated
Validate ==
    /\ pc = "idle"
    /\ LET s1 == Report([progress |-> ProgressCallback(TRUE, 100), events |-> events],
                        "Validating input file", 0)
       IN  progress' = s1.progress /\ events' = s1.events
    /\ IF input_file = NoFile
       THEN /\ error' = Exception("InvalidPDFError", <<"Input file not found">>)
            /\ pc' = "raised"
       ELSE IF ~HasPdfSuffix(suffix)
       THEN /\ error' = Exception("InvalidPDFError", <<"Input file is not a PDF">>)
            /\ pc' = "raised"
       ELSE /\ pc' = "analyze"
            /\ UNCHANGED error
    /\ UNCHANGED <<args, process, scanner, hosts, config, input_file, output_file, doc, strategy, page_idx, counter,
                   most_common, freq, target_str, task_idx, target_xref, reads,
                   writes, deleted, result, run, history, suffix, faults, opens,
                   failed>>

\* the exception fitz.open raises for a file that is no PDF
FileDataError == Exception("FileDataError", <<"Failed to open file">>)

\* remove_watermark: the document is opened, the strategy chosen, the document
\* closed; an exception of fitz.open is raised again to the caller
SelectStrategy ==
    /\ pc = "analyze"
    /\ opens' = opens + 1
    /\ LET s1 == Report(Tracker, "Analyzing PDF", 5)
           s2 == Report(s1, "Selecting strategy", 10)
           s3 == Report(s2, IF UsesXRef(input_file.producer)
                            THEN "Processing with XRef strategy"
                            ELSE "Processing with Common String strategy", 15)
       IN  IF ~input_file.valid
           THEN /\ error' = FileDataError
                /\ pc' = "raised"
                /\ progress' = s1.progress
                /\ events' = s1.events
                /\ UNCHANGED strategy
           ELSE /\ strategy' = IF UsesXRef(input_file.producer) THEN "xref" ELSE "text"
                /\ pc' = IF UsesXRef(input_file.producer) THEN "xref_open" ELSE "text_open"
                /\ progress' = s3.progress
                /\ events' = s3.events
                /\ UNCHANGED error
    /\ UNCHANGED <<args, process, scanner, hosts, config, input_file, output_file, doc, page_idx, counter,
                   most_common, freq, target_str, task_idx, target_xref, reads,
                   writes, deleted, result, run, history, suffix, faults,
                   failed>>

\* variant: a strategy that found nothing hands the document to the other one
FallBack(s) == IF s = "xref" THEN "text_open" ELSE "returned"

\* "return False" in a strategy, "return await ...remove(...)" in
\* remove_watermark: the result goes to the caller, nothing else is tried
NotFound(s) == "returned"

\* XRefImageRemovalStrategy.remove: fitz.open and the page count check
XRefOpen ==
    /\ pc = "xref_open"
    /\ doc' = input_file
    /\ opens' = opens + 1
    /\ LET s1 == StrategyReport(Tracker, "Opening PDF", <<1, 10>>)
       IN  progress' = s1.progress /\ events' = s1.events
    /\ IF Len(input_file.pages) = 0
       THEN /\ error' = Wrapped("XRef removal failed", NoPages)
            /\ pc' = "raised"
       ELSE /\ pc' = "xref_find"
            /\ UNCHANGED error
    /\ UNCHANGED <<args, process, scanner, hosts, config, input_file, output_file, strategy, page_idx, counter,
                   most_common, freq, target_str, task_idx, target_xref, reads,
                   writes, deleted, result, run, history, suffix, faults, failed>>

\* XRefImageRemovalStrategy.remove: the matcher on page 0 and the not-found return
XRefFind ==
    /\ pc = "xref_find"
    /\ LET s1 == StrategyReport(Tracker, "Finding watermark", <<3, 10>>)
       IN  progress' = s1.progress /\ events' = s1.events
    /\ target_xref' = _find_watermark_xref(doc.pages[1], config.WATERMARK_PATTERNS)
    /\ IF Falsy(target_xref')
       THEN /\ result' = False
            /\ pc' = NotFound(strategy)
       ELSE /\ pc' = "xref_delete"
            /\ UNCHANGED result
    /\ UNCHANGED <<args, process, scanner, hosts, config, input_file, output_file, doc, strategy, page_idx, counter,
                   most_common, freq, target_str, task_idx, reads, writes, deleted,
                   error, run, history, suffix, faults, opens, failed>>

\* XRefImageRemovalStrategy.remove: doc[0].delete_image(target_xref)
XRefDelete ==
    /\ pc = "xref_delete"
    /\ LET s1 == StrategyReport(Tracker, "Removing watermark", <<5, 10>>)
       IN  progress' = s1.progress /\ events' = s1.events
    /\ doc' = delete_image(doc, target_xref)
    /\ deleted' = Append(deleted, <<0, target_xref>>)
    /\ pc' = "xref_save"
    /\ UNCHANGED <<args, process, scanner, hosts, config, input_file, output_file, strategy, page_idx, counter,
                   most_common, freq, target_str, task_idx, target_xref, reads,
                   writes, result, error, run, history, suffix, faults, opens,
                   failed>>

\* XRefImageRemovalStrategy.remove: ez_save, close, return True
XRefSave ==
    /\ pc = "xref_save"
    /\ LET s1 == StrategyReport(Tracker, "Saving document", <<8, 10>>)
           s2 == StrategyReport(s1, "Complete", <<10, 10>>)
       IN  progress' = s2.progress /\ events' = s2.events
    /\ output_file' = doc
    /\ doc' = NoDoc
    /\ result' = True
    /\ pc' = "returned"
    /\ UNCHANGED <<args, process, scanner, hosts, config, input_file, strategy, page_idx, counter, most_common,
                   freq, target_str, task_idx, target_xref, reads, writes, deleted,
                   error, run, history, suffix, faults, opens, failed>>

\* CommonStringRemovalStrategy.remove: fitz.open and the page count check
TextOpen ==
    /\ pc = "text_open"
    /\ doc' = input_file
    /\ opens' = opens + 1
    /\ LET s1 == StrategyReport(Tracker, "Opening PDF", <<1, 20>>)
           s2 == StrategyReport(s1, "Analyzing document", <<1, 10>>)
       IN  IF Len(input_file.pages) = 0
           THEN /\ error' = Wrapped("Common string removal failed", NoPages)
                /\ pc' = "raised"
                /\ progress' = s1.progress
                /\ events' = s1.events
           ELSE /\ pc' = "detect"
                /\ progress' = s2.progress
                /\ events' = s2.events
                /\ UNCHANGED error
    /\ page_idx' = 0
    /\ counter' = <<>>
    /\ UNCHANGED <<args, process, scanner, hosts, config, input_file, output_file, strategy, most_common, freq,
                   target_str, task_idx, target_xref, reads, writes, deleted, result,
                   run, history, suffix, faults, failed>>

\* the streams page p lists, as (page, position) pairs
StreamsOfPage(d, p) == {<<p, j>> : j \in 1..Len(d.pages[p + 1].contents)}

\* variant: the scan stops behind the first page
ScanFirstPageOnly(d, idx) == idx >= 1

\* every page has been scanned
ScanComplete(d, idx) == idx >= Len(d.pages)

\* _find_most_frequent_text_tj_substring: one iteration of the loop over the pages
DetectPage ==
    /\ pc = "detect"
    /\ ~ScanComplete(doc, page_idx)
    /\ LET s1 == StrategyReport(Tracker,
                                PageStatus("Analyzing page ", page_idx, Len(doc.pages)),
                                DetectionFraction(<<page_idx, Len(doc.pages)>>))
       IN  progress' = s1.progress /\ events' = s1.events
    /\ counter' = ScanPage(doc, page_idx, 1, counter,
                           config.MIN_PATTERN_LENGTH, config.PATTERN_SEARCH_WINDOW)
    /\ reads' = reads \cup StreamsOfPage(doc, page_idx)
    /\ page_idx' = page_idx + 1
    /\ UNCHANGED <<args, process, scanner, hosts, config, input_file, output_file, doc, pc, strategy, most_common,
                   freq, target_str, task_idx, target_xref, writes, deleted, result,
                   error, run, history, suffix, faults, opens, failed>>

\* what _find_most_frequent_text_tj_substring returns
Detected(cnt) ==
    IF cnt = <<>> THEN [most_frequent |-> NoBytes, frequency |-> 0]
    ELSE [most_frequent |-> most_common_1(cnt).key,
          frequency |-> most_common_1(cnt).count]

\* variant: a run seen once does not count
NotDetectedTwice(mc, f) == mc = NoBytes \/ f < 2

\* "not most_common or freq < 1"
NotDetected(mc, f) == mc = NoBytes \/ f < 1

\* the end of the detection, the not-found return, the conversion of the run
SelectPattern ==
    /\ pc = "detect"
    /\ ScanComplete(doc, page_idx)
    /\ most_common' = Detected(counter).most_frequent
    /\ freq' = Detected(counter).frequency
    /\ IF NotDetected(most_common', freq')
       THEN /\ result' = False
            /\ pc' = NotFound(strategy)
            /\ UNCHANGED <<target_str, progress, events>>
       ELSE /\ target_str' = decode_strip(most_common')
            /\ pc' = "remove"
            /\ LET s1 == StrategyReport(Tracker, "Removing watermark", <<4, 10>>)
               IN  progress' = s1.progress /\ events' = s1.events
            /\ UNCHANGED result
    /\ task_idx' = 0
    /\ UNCHANGED <<args, process, scanner, hosts, config, input_file, output_file, doc, strategy, page_idx, counter,
                   target_xref, reads, writes, deleted, error, run, history, suffix,
                   faults, opens, failed>>

\* variant: the gather returns when its first task has run
TasksDoneAfterFirst(d, idx) == idx >= 1

\* every task of asyncio.gather has run
TasksDone(d, idx) == idx >= Len(d.pages)

\* raise StrategyError(f"Failed to remove pattern from page {page_number}: {str(e)}")
PageFailure(page_number) ==
    Exception("StrategyError",
              <<"Failed to remove pattern from page " \o ToString(page_number),
                "update_stream failed">>)

\* one task of asyncio.gather: the tasks have no await inside, so each runs
\* to its end, in the order of the pages, whether or not an earlier one raised
RemovePage ==
    /\ pc = "remove"
    /\ ~TasksDone(doc, task_idx)
    /\ LET s1 == StrategyReport(Tracker,
                                PageStatus("Processing page ", task_idx, Len(doc.pages)),
                                RemovalFraction(<<task_idx, Len(doc.pages)>>))
       IN  progress' = s1.progress /\ events' = s1.events
    /\ LET r == _remove_watermark_from_page(doc, task_idx, target_str, faults)
       IN  /\ doc' = r.doc
           /\ writes' = writes \o r.writes
           /\ failed' = IF r.raised THEN Append(failed, task_idx) ELSE failed
    /\ task_idx' = task_idx + 1
    /\ UNCHANGED <<args, process, scanner, hosts, config, input_file, output_file, pc, strategy, page_idx, counter,
                   most_common, freq, target_str, target_xref, reads, deleted, result,
                   error, run, history, suffix, faults, opens>>

\* the exception await asyncio.gather(*tasks) raises: that of the first task
\* that raised; the others are not retrieved
Gathered(fl) == PageFailure(fl[1])

\* CommonStringRemovalStrategy.remove: a task raised, gather raises, except Exception
TasksFailed ==
    /\ pc = "remove"
    /\ TasksDone(doc, task_idx)
    /\ failed # <<>>
    /\ error' = Wrapped("Common string removal failed", Gathered(failed))
    /\ pc' = "raised"
    /\ UNCHANGED <<args, process, scanner, hosts, config, input_file, output_file, doc, strategy, page_idx, counter,
                   most_common, freq, target_str, task_idx, target_xref, reads,
                   writes, deleted, result, run, history, suffix, faults, opens,
                   failed, progress, events>>

\* CommonStringRemovalStrategy.remove: save, close, return True
TextSave ==
    /\ pc = "remove"
    /\ TasksDone(doc, task_idx)
    /\ failed = <<>>
    /\ LET s1 == StrategyReport(Tracker, "Saving document", <<9, 10>>)
           s2 == StrategyReport(s1, "Complete", <<10, 10>>)
       IN  progress' = s2.progress /\ events' = s2.events
    /\ output_file' = doc
    /\ doc' = NoDoc
    /\ result' = True
    /\ pc' = "returned"
    /\ UNCHANGED <<args, process, scanner, hosts, config, input_file, strategy, page_idx, counter, most_common,
                   freq, target_str, task_idx, target_xref, reads, writes, deleted,
                   error, run, history, suffix, faults, opens, failed>>

\* the host calls remove_watermark again, on the file the last call wrote
Reinvoke ==
    /\ pc = "returned"
    /\ result = True
    /\ run < MaxRuns
    /\ history' = Append(history,
                         [strategy |-> strategy, result |-> result,
                          input |-> input_file, output |-> output_file,
                          most_common |-> most_common, freq |-> freq,
                          writes |-> writes])
    /\ input_file' = output_file
    /\ output_file' = NoFile
    /\ doc' = NoDoc
    /\ pc' = "idle"
    /\ strategy' = "none"
    /\ page_idx' = 0
    /\ counter' = <<>>
    /\ most_common' = NoBytes
    /\ freq' = 0
    /\ target_str' = NoBytes
    /\ task_idx' = 0
    /\ target_xref' = None
    /\ reads' = {}
    /\ writes' = <<>>
    /\ deleted' = <<>>
    /\ result' = NoResult
    /\ run' = run + 1
    /\ opens' = 0
    /\ failed' = <<>>
    /\ progress' = ProgressCallback(TRUE, 100)
    /\ events' = <<>>
    /\ UNCHANGED <<args, process, scanner, hosts, config, error, suffix, faults>>

Next ==
    \/ Validate
    \/ SelectStrategy
    \/ XRefOpen
    \/ XRefFind
    \/ XRefDelete
    \/ XRefSave
    \/ TextOpen
    \/ DetectPage
    \/ SelectPattern
    \/ RemovePage
    \/ TasksFailed
    \/ TextSave
    \/ Reinvoke

Spec == Init /\ [][Next]_vars

----------------------------------------------------------------------------
(* A host that drives a ProgressCallback of its own *)

Statuses == {"", "Starting", "Halfway"}
Steps == {0, 5}
Increments == {1, 3}

\* ProgressCallback(callback, total_steps), with and without a callback
ProgressInit ==
    /\ Fresh(Scenario(DefaultConfig, NoFile))
    /\ \E callback \in BOOLEAN : \E total_steps \in {10, 100} :
          progress = ProgressCallback(callback, total_steps)
    /\ events = <<>>
    /\ args = NoArgs
    /\ ProcessStart
    /\ HostsIdle
    /\ ScannerIdle

\* progress.update(status, step, increment)
Update ==
    \E status \in Statuses : \E step \in Steps \cup {None} :
        \E increment \in IF step = None THEN Increments ELSE {1} :
            /\ Len(events) < MaxUpdates
            /\ update(progress, status, step, increment).current_step <= MaxStep
            /\ args' = [status |-> status, step |-> step, increment |-> increment]
            /\ progress' = update(progress, status, step, increment)
            /\ events' = call(events, progress')
            /\ UNCHANGED <<engine, process, scanner, hosts>>

ProgressNext == Update

ProgressSpec == ProgressInit /\ [][ProgressNext]_vars

----------------------------------------------------------------------------
(* The process-wide configuration: Config *)

\* Config.DEFAULT_CONFIG, with two of the keys an environment variable overrides
DEFAULT_CONFIG ==
    DefaultConfig @@ [LOG_LEVEL |-> "INFO", MAX_CONCURRENT_PAGES |-> MAX_CONCURRENT_PAGES]

\* Config.ENV_VARS
ENV_VARS ==
    [LOG_LEVEL |-> "PDF_WATERMARK_LOG_LEVEL",
     MAX_CONCURRENT_PAGES |-> "PDF_WATERMARK_MAX_CONCURRENT_PAGES"]

\* the YAML files of the host: what yaml.safe_load returns for each path
ConfigFiles == {"", "a.yaml", "b.yaml"}

FileContent(config_file) ==
    CASE config_file = "a.yaml" ->
            [LOG_LEVEL |-> "DEBUG", MAX_CONCURRENT_PAGES |-> 16, UNKNOWN_KEY |-> 1]
      [] config_file = "b.yaml" -> [MIN_PATTERN_LENGTH |-> 6]

\* values the host gives the environment variables
EnvValues ==
    [PDF_WATERMARK_LOG_LEVEL |-> {"DEBUG"},
     PDF_WATERMARK_MAX_CONCURRENT_PAGES |-> {"4", "abc"}]

\* int(value) for the strings it accepts; it raises ValueError for the others
IntOf == ("4" :> 4) @@ ("16" :> 16)

\* env_var in os.environ; os.environ[env_var]
IsSet(env, env_var) == \E v \in EnvValues[env_var] : <<env_var, v>> \in env
getenv(env, env_var) == CHOOSE v \in EnvValues[env_var] : <<env_var, v>> \in env

\* isinstance(self._config[key], int)
IsInt(key) == key = "MAX_CONCURRENT_PAGES"

\* _load_from_file: the keys of the file that the configuration knows
_load_from_file(_config, config_file) ==
    [key \in DOMAIN _config |->
        IF key \in DOMAIN FileContent(config_file)
        THEN FileContent(config_file)[key]
        ELSE _config[key]]

\* _load_from_env: a variable that is set replaces the value, converted to
\* int for an integer key; a value int() rejects is skipped
_load_from_env(_config, env) ==
    [key \in DOMAIN _config |->
        IF key \in DOMAIN ENV_VARS /\ IsSet(env, ENV_VARS[key])
        THEN LET value == getenv(env, ENV_VARS[key])
             IN  IF IsInt(key)
                 THEN IF value \in DOMAIN IntOf THEN IntOf[value] ELSE _config[key]
                 ELSE value
        ELSE _config[key]]

\* Config._init
_init(config_file, env) ==
    _load_from_env(IF config_file # ""
                   THEN _load_from_file(DEFAULT_CONFIG, config_file)
                   ELSE DEFAULT_CONFIG,
                   env)

\* variant: every call builds a new instance
NewInstance(instance, config_file, env) ==
    [created |-> TRUE, _config |-> _init(config_file, env)]

\* Config.__new__: the instance is built by the first call only
__new__(instance, config_file, env) ==
    IF ~instance.created
    THEN [created |-> TRUE, _config |-> _init(config_file, env)]
    ELSE instance

ConfigInit ==
    /\ Fresh(Scenario(DefaultConfig, NoFile))
    /\ progress = ProgressCallback(TRUE, 100)
    /\ events = <<>>
    /\ args = NoArgs
    /\ ProcessStart
    /\ HostsIdle
    /\ ScannerIdle

\* os.environ[name] = value
SetEnv ==
    \E env_var \in DOMAIN EnvValues : \E value \in EnvValues[env_var] :
        /\ environ' = {e \in environ : e[1] # env_var} \cup {<<env_var, value>>}
        /\ UNCHANGED <<engine, progress, events, args, scanner, hosts, _instance, returned>>

\* del os.environ[name]
DelEnv ==
    \E e \in environ :
        /\ environ' = environ \ {e}
        /\ UNCHANGED <<engine, progress, events, args, scanner, hosts, _instance, returned>>

\* Config(config_file)
NewConfig ==
    \E config_file \in ConfigFiles :
        /\ _instance' = __new__(_instance, config_file, environ)
        /\ returned' = [made |-> TRUE, config_file |-> config_file,
                        environ |-> environ, value |-> _instance'._config]
        /\ UNCHANGED <<engine, progress, events, args, scanner, hosts, environ>>

ConfigNext ==
    \/ SetEnv
    \/ DelEnv
    \/ NewConfig

ConfigSpec == ConfigInit /\ [][ConfigNext]_vars

----------------------------------------------------------------------------
(* The while loop of the scanner, one iteration at a time *)

ScanInit ==
    /\ \E c \in ScanConfigs : \E d \in OneStreamDocs :
          /\ Fresh(Scenario(c, d))
          /\ scan_content = d.streams[1]
    /\ scan_i = 0
    /\ progress = ProgressCallback(TRUE, 100)
    /\ events = <<>>
    /\ args = NoArgs
    /\ ProcessStart
    /\ HostsIdle

\* while i < len(content): one iteration
Scan ==
    /\ scan_i < Len(scan_content)
    /\ LET st == ScanStep(scan_content, scan_i, counter, <<0, 1>>,
                          config.MIN_PATTERN_LENGTH, config.PATTERN_SEARCH_WINDOW)
       IN  /\ scan_i' = st.i
           /\ counter' = st.counter
    /\ UNCHANGED <<config, input_file, output_file, doc, pc, strategy, page_idx,
                   most_common, freq, target_str, task_idx, target_xref, reads,
                   writes, deleted, result, error, run, history, suffix, faults,
                   opens, failed, progress, events, args, process, hosts, scan_content>>

ScanNext == Scan

ScanSpec == ScanInit /\ [][ScanNext]_vars

\* the loop is sequential code: while its condition holds, it takes its next
\* iteration
ScanLiveSpec == ScanInit /\ [][ScanNext]_vars /\ WF_vars(Scan)

----------------------------------------------------------------------------
(* The first script, remove_wartermark.py: the anchor-mode scan of page 0 *)

\* pattern = b" Td\n<" and length = 100
LegacyPattern == <<" ", "T", "d", "\n", "<">>
LegacyLength == 100

\* max(count, key=count.get) on an empty dict
EmptyMax == Exception("ValueError", <<"max() arg is an empty sequence">>)

\* the while loop: at an occurrence of the pattern the bytes from its start up
\* to length bytes behind it are counted and the cursor passes the pattern
RECURSIVE AnchorScan(_, _, _, _, _)
AnchorScan(byte_array, anchor, length, i, count) ==
    IF i >= Len(byte_array) - Len(anchor) THEN count
    ELSE IF Slice(byte_array, i, i + Len(anchor)) = anchor
    THEN AnchorScan(byte_array, anchor, length, i + Len(anchor),
                    CounterAdd(count, Slice(byte_array, i, i + Len(anchor) + length), i))
    ELSE AnchorScan(byte_array, anchor, length, i + 1, count)

\* most_frequent_substring_with_pattern: the scan, then the key of the highest
\* count (the first one in insertion order); max raises on an empty table
most_frequent_substring_with_pattern(byte_array, anchor, length) ==
    LET count == AnchorScan(byte_array, anchor, length, 0, <<>>)
    IN  IF count = <<>>
        THEN [called |-> TRUE, error |-> EmptyMax, most_frequent |-> NoBytes, frequency |-> 0]
        ELSE [called |-> TRUE, error |-> NoError,
              most_frequent |-> most_common_1(count).key,
              frequency |-> most_common_1(count).count]

\* what the content of page 0 is built from
Chunks == {LegacyPattern, <<" ", "T", "d">>, <<"x">>, <<"y", "z">>}

\* cont = bytearray(page.read_contents())
LegacyInit ==
    /\ Fresh(Scenario(DefaultConfig, NoFile))
    /\ progress = ProgressCallback(TRUE, 100)
    /\ events = <<>>
    /\ args = NoArgs
    /\ ProcessStart
    /\ ScannerIdle
    /\ cont \in StreamsOf(Chunks, MaxChunks)
    /\ analysis = NotCalled
    /\ PoolIdle
    /\ ServerIdle
    /\ BatchIdle

\* most_frequent, frequency = most_frequent_substring_with_pattern(cont, pattern, length)
Analyze ==
    /\ ~analysis.called
    /\ analysis' = most_frequent_substring_with_pattern(cont, LegacyPattern, LegacyLength)
    /\ UNCHANGED <<engine, progress, events, args, process, scanner, cont, pool, server, cli>>

LegacyNext == Analyze

LegacySpec == LegacyInit /\ [][LegacyNext]_vars

----------------------------------------------------------------------------
(* The removal phase of the text strategy with its page tasks in any order *)

\* the detection over every page of d
RECURSIVE ScanDocument(_, _, _, _, _)
ScanDocument(d, p, cnt, min_length, window) ==
    IF p >= Len(d.pages) THEN cnt
    ELSE ScanDocument(d, p + 1, ScanPage(d, p, 1, cnt, min_length, window),
                      min_length, window)

\* the text the detection selects in d
TargetOf(d, cfg) ==
    decode_strip(Detected(ScanDocument(d, 0, <<>>, cfg.MIN_PATTERN_LENGTH,
                                       cfg.PATTERN_SEARCH_WINDOW)).most_frequent)

\* the document the tasks leave when they run in the order of the pages, as
\* asyncio runs them
RECURSIVE InPageOrder(_, _, _, _)
InPageOrder(d, p, target, broken) ==
    IF p >= Len(d.pages) THEN d
    ELSE InPageOrder(_remove_watermark_from_page(d, p, target, broken).doc,
                     p + 1, target, broken)

\* what a call of remove_watermark ends with
Raises(e) == [raised |-> TRUE, error |-> e, result |-> NoResult, output |-> NoFile]
Returns(r, out) == [raised |-> FALSE, error |-> NoError, result |-> r, output |-> out]

\* XRefImageRemovalStrategy.remove as a function of the file
XRefRemove(file, cfg) ==
    IF Len(file.pages) = 0 THEN Raises(Wrapped("XRef removal failed", NoPages))
    ELSE LET xref == _find_watermark_xref(file.pages[1], cfg.WATERMARK_PATTERNS)
         IN  IF Falsy(xref) THEN Returns(False, NoFile)
             ELSE Returns(True, delete_image(file, xref))

\* CommonStringRemovalStrategy.remove as a function of the file, on a host
\* whose update_stream works
TextRemove(file, cfg) ==
    IF Len(file.pages) = 0 THEN Raises(Wrapped("Common string removal failed", NoPages))
    ELSE LET found == Detected(ScanDocument(file, 0, <<>>, cfg.MIN_PATTERN_LENGTH,
                                            cfg.PATTERN_SEARCH_WINDOW))
         IN  IF NotDetected(found.most_frequent, found.frequency)
             THEN Returns(False, NoFile)
             ELSE Returns(True, InPageOrder(file, 0, decode_strip(found.most_frequent), {}))

\* the convenience function remove_watermark(input_file, output_file) on an
\* input path that ends in .pdf: what it raises or returns and the file it
\* writes at the output path, if any
RunEngine(file, cfg) ==
    IF ~file.present
    THEN Raises(Exception("InvalidPDFError", <<"Input file not found">>))
    ELSE IF ~file.valid THEN Raises(FileDataError)
    ELSE IF UsesXRef(file.producer) THEN XRefRemove(file, cfg)
    ELSE TextRemove(file, cfg)

\* a block with the run; a block with the run behind a q, which leaves a block
\* with the run when the first is removed; content without a block
Block == Save \o RunA \o Restore
Regrown == <<"q">> \o Block \o <<" ">> \o RunA \o Restore
StreamContents == {Block, Regrown, RunA, <<"x">>}

\* pages that share streams or not
Layouts ==
    {<<Page(<<1>>, <<>>), Page(<<2>>, <<>>), Page(<<3>>, <<>>)>>,
     <<Page(<<1>>, <<>>), Page(<<1>>, <<>>)>>,
     <<Page(<<1, 2>>, <<>>), Page(<<2>>, <<>>)>>,
     <<Page(<<1>>, <<>>), Page(<<1, 3, 2>>, <<>>)>>}

PoolDocs ==
    {Document(<<>>, pgs, (1 :> s1) @@ (2 :> s2) @@ (3 :> s3)) :
        pgs \in Layouts, s1 \in StreamContents, s2 \in StreamContents,
        s3 \in StreamContents}

\* a document of one page more than MAX_CONCURRENT_PAGES, the run on each
\* page outside any block
ManyPagesDoc ==
    Document(<<>>,
             [k \in 1..(MAX_CONCURRENT_PAGES + 1) |-> Page(<<k>>, <<>>)],
             [k \in 1..(MAX_CONCURRENT_PAGES + 1) |-> RunA])

\* documents in which the detection finds a run, and the streams the host
\* refuses to update
PoolScenarios ==
    {[Scenario(ShortRunConfig, d) EXCEPT !.faults = b] :
        d \in {x \in PoolDocs : TargetOf(x, ShortRunConfig) # NoBytes}, b \in {{}, {3}}}
    \cup {Scenario(ShortRunConfig, ManyPagesDoc)}

\* the strategy has opened the document and selected the run
PoolInit ==
    /\ \E sc \in PoolScenarios :
          /\ config = sc.config
          /\ input_file = sc.file
          /\ suffix = sc.suffix
          /\ faults = sc.faults
          /\ doc = sc.file
          /\ target_str = TargetOf(sc.file, sc.config)
    /\ output_file = NoFile
    /\ pc = "dispatch"
    /\ strategy = "text"
    /\ page_idx = 0
    /\ counter = <<>>
    /\ most_common = NoBytes
    /\ freq = 0
    /\ task_idx = 0
    /\ target_xref = None
    /\ reads = {}
    /\ writes = <<>>
    /\ deleted = <<>>
    /\ result = NoResult
    /\ error = NoError
    /\ run = 1
    /\ history = <<>>
    /\ opens = 0
    /\ failed = <<>>
    /\ progress = ProgressCallback(TRUE, 100)
    /\ events = <<>>
    /\ args = NoArgs
    /\ ProcessStart
    /\ ScannerIdle
    /\ LegacyIdle
    /\ PoolIdle
    /\ ServerIdle
    /\ BatchIdle

\* tasks = [... for page in doc]; asyncio.gather(*tasks): a task for every page
Dispatch ==
    /\ pc = "dispatch"
    /\ pending' = 0..(Len(doc.pages) - 1)
    /\ pc' = "remove"
    /\ UNCHANGED <<config, input_file, output_file, doc, strategy, page_idx, counter,
                   most_common, freq, target_str, task_idx, target_xref, reads,
                   writes, deleted, result, error, run, history, suffix, faults,
                   opens, failed, progress, events, args, process, scanner, legacy, server, cli>>

\* one task runs to its end: _remove_watermark_from_page for one pending page
RunTask ==
    \E page_number \in pending :
        /\ pc = "remove"
        /\ LET r == _remove_watermark_from_page(doc, page_number, target_str, faults)
           IN  /\ doc' = r.doc
               /\ writes' = writes \o r.writes
               /\ failed' = IF r.raised THEN Append(failed, page_number) ELSE failed
        /\ task_idx' = task_idx + 1
        /\ pending' = pending \ {page_number}
        /\ UNCHANGED <<config, input_file, output_file, pc, strategy, page_idx, counter,
                       most_common, freq, target_str, target_xref, reads, deleted,
                       result, error, run, history, suffix, faults, opens, progress,
                       events, args, process, scanner, legacy, server, cli>>

\* await asyncio.gather(*tasks) returns or raises; save, close, return True
Join ==
    /\ pc = "remove"
    /\ pending = {}
    /\ IF failed # <<>>
       THEN /\ error' = Wrapped("Common string removal failed", Gathered(failed))
            /\ pc' = "raised"
            /\ UNCHANGED <<output_file, doc, result>>
       ELSE /\ output_file' = doc
            /\ doc' = NoDoc
            /\ result' = True
            /\ pc' = "returned"
            /\ UNCHANGED error
    /\ UNCHANGED <<config, input_file, strategy, page_idx, counter, most_common, freq,
                   target_str, task_idx, target_xref, reads, writes, deleted, run,
                   history, suffix, faults, opens, failed, progress, events, args,
                   process, scanner, legacy, pool, server, cli>>

PoolNext ==
    \/ Dispatch
    \/ RunTask
    \/ Join

PoolSpec == PoolInit /\ [][PoolNext]_vars

----------------------------------------------------------------------------
(* The HTTP server: PDFWatermarkRemoverServer *)

\* files a client uploads: one with a run the detection records, one whose
\* run is too short to be recorded, one that is no PDF
UploadDocs == {ExampleDoc(LongRun, 2, TRUE), ExampleDoc(WatermarkRun, 2, TRUE), Damaged}

ServerInit ==
    /\ Fresh(Scenario(DefaultConfig, NoFile))
    /\ progress = ProgressCallback(TRUE, 100)
    /\ events = <<>>
    /\ args = NoArgs
    /\ ProcessStart
    /\ ScannerIdle
    /\ LegacyIdle
    /\ PoolIdle
    /\ ServerIdle
    /\ BatchIdle

\* upload_file and the start of _process_pdf_file: the name is checked, the
\* job gets its id and its output path, the upload is saved to a temporary file
Receive ==
    \E filename \in Filenames : \E file \in UploadDocs :
        /\ Len(requests) < MaxJobs
        /\ IF _is_allowed_file(filename)
           THEN /\ requests' = Append(requests,
                                      [job_id |-> Len(requests) + 1,
                                       output_path |-> OutputPath(filename),
                                       temp_input |-> file,
                                       at |-> "saved",
                                       status |-> "completed",
                                       error |-> NoError])
                /\ UNCHANGED response
           ELSE /\ response' = [NoResponse EXCEPT !.code = 400]
                /\ UNCHANGED requests
        /\ UNCHANGED <<engine, progress, events, args, process, scanner, legacy, pool, cli,
                       current_jobs, data_dir>>

\* _process_pdf_file: asyncio.run(remove_watermark(temp_input_path, output_path))
\* inside try/except; the value it returns is not looked at
Process ==
    \E k \in 1..Len(requests) :
        /\ requests[k].at = "saved"
        /\ LET r == RunEngine(requests[k].temp_input, config)
           IN  /\ requests' =
                     [requests EXCEPT ![k].at = "processed",
                                      ![k].status = IF r.raised THEN "failed" ELSE @,
                                      ![k].error = r.error]
               /\ data_dir' =
                     IF r.output.present
                     THEN [data_dir EXCEPT ![requests[k].output_path] =
                                              Written(requests[k].job_id, r.output)]
                     ELSE data_dir
        /\ UNCHANGED <<engine, progress, events, args, process, scanner, legacy, pool, cli,
                       current_jobs, response>>

\* _process_pdf_file: with self.process_lock: self.current_jobs[job_id] = {...}
RecordJob ==
    \E k \in 1..Len(requests) :
        /\ requests[k].at = "processed"
        /\ requests' = [requests EXCEPT ![k].at = "recorded"]
        /\ current_jobs' =
              [current_jobs EXCEPT ![requests[k].job_id] =
                  [id |-> requests[k].job_id,
                   status |-> requests[k].status,
                   output_path |-> IF requests[k].status = "completed"
                                   THEN requests[k].output_path ELSE NoPath,
                   error |-> requests[k].error]]
        /\ UNCHANGED <<engine, progress, events, args, process, scanner, legacy, pool, cli,
                       data_dir, response>>

\* download_file: 404 for an unknown job, for a job without output path and
\* for a path at which no file is; else the file at the path is sent
Download ==
    \E job_id \in 1..MaxJobs :
        /\ response' =
              IF current_jobs[job_id] = NoJob
              THEN [code |-> 404, job_id |-> job_id, body |-> NoOutput]
              ELSE LET output_path == current_jobs[job_id].output_path
                   IN  IF output_path = NoPath \/ ~data_dir[output_path].file.present
                       THEN [code |-> 404, job_id |-> job_id, body |-> NoOutput]
                       ELSE [code |-> 200, job_id |-> job_id, body |-> data_dir[output_path]]
        /\ UNCHANGED <<engine, progress, events, args, process, scanner, legacy, pool, cli,
                       requests, current_jobs, data_dir>>

ServerNext ==
    \/ Receive
    \/ Process
    \/ RecordJob
    \/ Download

ServerSpec == ServerInit /\ [][ServerNext]_vars

----------------------------------------------------------------------------
(* The command line's batch mode: PDFWatermarkRemoverCLI.process_batch *)

\* the PDF files of a batch: with a watermark the detection records, without
\* one, and one that does not open; each with or without a file at its output path
BatchFiles ==
    {[input |-> f, output_exists |-> e] :
        f \in {ExampleDoc(LongRun, 2, TRUE), ExampleDoc(WatermarkRun, 2, TRUE), Damaged},
        e \in BOOLEAN}

\* the values of Python the loops test: a bool, a coroutine object
Bool(b) == [kind |-> "bool", value |-> b]
CoroutineObject(k) == [kind |-> "coroutine", of |-> k]

\* bool(v): a coroutine object is an object without __bool__ or __len__
bool(v) == IF v.kind = "coroutine" THEN TRUE ELSE v.value = True

\* process_single_file: what the removal did, if it was called, and the value
\* returned; every exception is caught and gives False
process_single_file(file, overwrite) ==
    IF file.output_exists /\ ~overwrite
    THEN [ran |-> NotRun, value |-> Bool(False)]
    ELSE LET r == RunEngine(file.input, DefaultConfig)
         IN  [ran |-> r, value |-> Bool(IF r.raised THEN False ELSE r.result)]

\* asyncio.to_thread(process_func, input_file, output_file): the thread calls
\* the coroutine function remove_watermark, which makes a coroutine object
\* and runs none of its body
to_thread(k) == [ran |-> NotRun, value |-> CoroutineObject(k)]

\* results["success"] += 1 or results["skipped"] += 1
Counted(results, v) ==
    IF bool(v) THEN [results EXCEPT !.success = @ + 1]
    ELSE [results EXCEPT !.skipped = @ + 1]

BatchInit ==
    /\ Fresh(Scenario(DefaultConfig, NoFile))
    /\ progress = ProgressCallback(TRUE, 100)
    /\ events = <<>>
    /\ args = NoArgs
    /\ ProcessStart
    /\ ScannerIdle
    /\ LegacyIdle
    /\ PoolIdle
    /\ ServerIdle
    /\ \E n \in 1..MaxFiles : \E files \in [1..n -> BatchFiles] :
       \E parallel \in {1, 2} : \E overwrite \in BOOLEAN :
          batch = [NoBatch EXCEPT !.mode = "start", !.files = files,
                                  !.parallel = parallel, !.overwrite = overwrite,
                                  !.i = 1,
                                  !.ran = [k \in 1..n |-> NotRun],
                                  !.tasks = [k \in 1..n |-> Unfinished],
                                  !.tally = [k \in 1..n |-> "none"],
                                  !.results.total = n]

\* process_batch: if self.args.parallel > 1 ... else ...
ProcessBatch ==
    /\ batch.mode = "start"
    /\ batch' = [batch EXCEPT !.mode = IF batch.parallel > 1 THEN "parallel"
                                       ELSE "sequential"]
    /\ UNCHANGED <<engine, progress, events, args, process, scanner, legacy, pool, server>>

\* _process_sequential: one turn of for file in files
ProcessSequential ==
    /\ batch.mode = "sequential"
    /\ batch.i <= Len(batch.files)
    /\ LET k == batch.i
           r == process_single_file(batch.files[k], batch.overwrite)
       IN  batch' = [batch EXCEPT !.i = k + 1,
                                  !.ran[k] = r.ran,
                                  !.tally[k] = IF bool(r.value) THEN "success" ELSE "skipped",
                                  !.results = Counted(@, r.value)]
    /\ UNCHANGED <<engine, progress, events, args, process, scanner, legacy, pool, server>>

\* _process_parallel: a worker thread runs the function of one task
ToThread ==
    \E k \in 1..Len(batch.files) :
        /\ batch.mode = "parallel"
        /\ batch.tasks[k] = Unfinished
        /\ batch' = [batch EXCEPT !.tasks[k] = to_thread(k).value,
                                  !.ran[k] = to_thread(k).ran]
        /\ UNCHANGED <<engine, progress, events, args, process, scanner, legacy, pool, server>>

\* _process_parallel: one turn of for task in asyncio.as_completed(tasks);
\* no task raises, so the except branch and results["failed"] are never taken
AsCompleted ==
    \E k \in 1..Len(batch.files) :
        /\ batch.mode = "parallel"
        /\ batch.tasks[k] # Unfinished
        /\ k \notin batch.awaited
        /\ batch' = [batch EXCEPT !.awaited = @ \cup {k},
                                  !.tally[k] = IF bool(batch.tasks[k]) THEN "success"
                                               ELSE "skipped",
                                  !.results = Counted(@, batch.tasks[k])]
        /\ UNCHANGED <<engine, progress, events, args, process, scanner, legacy, pool, server>>

\* process_batch: return results, once the loop has taken every file
ReturnResults ==
    /\ \/ batch.mode = "sequential" /\ batch.i > Len(batch.files)
       \/ batch.mode = "parallel" /\ batch.awaited = 1..Len(batch.files)
    /\ batch' = [batch EXCEPT !.mode = "done"]
    /\ UNCHANGED <<engine, progress, events, args, process, scanner, legacy, pool, server>>

BatchNext ==
    \/ ProcessBatch
    \/ ProcessSequential
    \/ ToThread
    \/ AsCompleted
    \/ ReturnResults

BatchSpec == BatchInit /\ [][BatchNext]_vars

----------------------------------------------------------------------------
(* Vocabulary of the properties *)

\* the invocation returned a value to its caller
Returned == pc = "returned"

\* the document as the invocation leaves it: the saved file, or the open handle
Outcome == IF output_file.present THEN output_file ELSE doc

\* at least one byte of some content stream was deleted
StreamsChanged == doc.present /\ Outcome.streams # input_file.streams

\* a marker stands at offset i of content, its terminator follows within the
\* window and the run up to the end of the terminator is long enough
QualifyingAt(content, i, min_length, window) ==
    \E k \in 1..Len(Markers) :
        /\ content[i + 1] = Markers[k].open
        /\ \E end \in i..(i + window - 1) :
              /\ OccursAt(content, Markers[k].term, end)
              /\ \A e \in i..(end - 1) : ~OccursAt(content, Markers[k].term, e)
              /\ end + Len(Markers[k].term) - i >= min_length

\* some content stream of some page of d holds a qualifying bracket run
HasQualifyingRun(d, cfg) ==
    \E p \in 1..Len(d.pages) :
        \E j \in 1..Len(d.pages[p].contents) :
            LET content == d.streams[d.pages[p].contents[j]]
            IN  \E i \in 0..(Len(content) - 1) :
                    QualifyingAt(content, i, cfg.MIN_PATTERN_LENGTH,
                                 cfg.PATTERN_SEARCH_WINDOW)

\* every content stream of every page has been read by the detection scan
AllStreamsRead ==
    \A p \in 0..(Len(input_file.pages) - 1) : StreamsOfPage(input_file, p) \subseteq reads

----------------------------------------------------------------------------
(* C1: remove returns true if and only if a watermark instance was removed:
   for the text strategy at least one block was deleted from a content
   stream, for the image strategy an image reference was deleted. *)
C1_TrueIffRemoved ==
    Returned =>
        (result = True <=>
            IF strategy = "text" THEN StreamsChanged ELSE deleted # <<>>)

(* C2: remove_watermark routes to the image strategy if and only if one of
   the configured XREF_PRODUCER_PATTERNS is a substring of the producer. *)
C2_RoutedByConfiguredTriggers ==
    strategy # "none" =>
        (strategy = "xref" <=>
            can_handle(input_file.producer, config.XREF_PRODUCER_PATTERNS))

(* C3: on a document with pages whose streams hold no qualifying bracket
   run, the table stays empty and the text strategy returns false with no
   error, no stream write and no saved output. *)
C3_NoRunNoRemoval ==
    (strategy = "text" /\ Len(input_file.pages) > 0
        /\ ~HasQualifyingRun(input_file, config)) =>
        /\ counter = <<>>
        /\ pc \in {"text_open", "detect", "returned"}
        /\ Returned => result = False
        /\ error = NoError
        /\ writes = <<>>
        /\ ~output_file.present

(* C4: once a removal task has written a stream, every content stream of
   every page has been read by the detection, and the detection reads no
   stream afterwards. *)
C4_DetectionBeforeRemoval ==
    [][(writes' # <<>> /\ run' = run) => (AllStreamsRead' /\ reads' = reads)]_vars

C4_Witness ==
    /\ writes # <<>>
    /\ Len(input_file.pages) = 2
    /\ pc = "remove"
    /\ task_idx = 1

(* C5: a stream of the form A q...Q B q...<run>...Q C, where A, B and C
   hold no block and only the second block holds the winning run, is
   rewritten to A q...Q B C. *)
IsBlock(b) ==
    /\ Len(b) >= 3
    /\ b[1] = "q"
    /\ b[2] \in Whitespace
    /\ b[Len(b)] = "Q"
    /\ \A k \in 2..(Len(b) - 1) : b[k] \notin {"q", "Q"}

NoBlock(x) == ~\E i \in 1..Len(x) : \E j \in (i + 1)..Len(x) : x[i] = "q" /\ x[j] = "Q"

HasForm(s, a1, a2, a3, a4, target) ==
    /\ IsBlock(Slice(s, a1, a2))
    /\ IsBlock(Slice(s, a3, a4))
    /\ Contains(Slice(s, a3, a4), target)
    /\ ~Contains(Slice(s, a1, a2), target)
    /\ NoBlock(Slice(s, 0, a1))
    /\ NoBlock(Slice(s, a2, a3))
    /\ NoBlock(Slice(s, a4, Len(s)))

C5_OnlyMatchingBlockRemoved ==
    (strategy = "text" /\ pc = "remove" /\ TasksDone(doc, task_idx)) =>
        \A x \in DOMAIN input_file.streams :
            LET s == input_file.streams[x]
            IN  \A a1 \in 0..Len(s) : \A a2 \in (a1 + 1)..Len(s) :
                \A a3 \in a2..Len(s) : \A a4 \in (a3 + 1)..Len(s) :
                    HasForm(s, a1, a2, a3, a4, target_str) =>
                        doc.streams[x] = Slice(s, 0, a3) \o Slice(s, a4, Len(s))

\* the invocation before this one
Previous == history[Len(history)]

\* this invocation runs on the output of a text strategy run that returned true
AfterTextTrue ==
    /\ history # <<>>
    /\ Previous.strategy = "text"
    /\ Previous.result = True

(* C6: a second run of the text strategy on the output of a run that
   returned true returns false. *)
C6_SecondRunFalse ==
    (AfterTextTrue /\ Returned) => result = False

(* C6, amended: the second run returns false exactly when its scan of the
   output records no run; on an output equal to the input it returns true
   again with the same run and count. *)
C6_SecondRunFalseIffNothingRecorded ==
    (AfterTextTrue /\ Returned) =>
        /\ result = False <=> counter = <<>>
        /\ input_file = Previous.input =>
              /\ result = True
              /\ most_common = Previous.most_common
              /\ freq = Previous.freq

C6_Witness ==
    /\ AfterTextTrue
    /\ Returned
    /\ result = False
    /\ Previous.writes # <<>>

\* scan positions (page, stream, offset) in scan order
PosLess(a, b) ==
    \/ a[1] < b[1]
    \/ a[1] = b[1] /\ a[2] < b[2]
    \/ a[1] = b[1] /\ a[2] = b[2] /\ a[3] < b[3]

\* the detection has selected a run
Selected == strategy = "text" /\ pc \in {"remove", "returned"} /\ most_common # NoBytes

(* C7: the selected run has the maximal count of the table; among the runs
   of maximal count it is the one whose first occurrence is earliest in
   scan order; a detection over an identical input selects the same run
   with the same count. *)
C7_MaxCountEarliestFirst ==
    Selected =>
        /\ \E k \in 1..Len(counter) :
              /\ counter[k].key = most_common
              /\ counter[k].count = freq
              /\ \A o \in 1..Len(counter) :
                    /\ counter[o].count <= freq
                    /\ (o # k /\ counter[o].count = freq) =>
                          PosLess(counter[k].first, counter[o].first)
        /\ (history # <<>> /\ input_file = Previous.input) =>
              (most_common = Previous.most_common /\ freq = Previous.freq)

C7_Witness ==
    /\ Selected
    /\ pc = "remove"
    /\ \E k \in 1..Len(counter) : \E o \in 1..Len(counter) :
          /\ k # o
          /\ counter[k].count = freq
          /\ counter[o].count = freq

\* the image has exactly the size of some signature
MatchesAny(im, sigs) ==
    \E k \in 1..Len(sigs) : im.width = sigs[k].width /\ im.height = sigs[k].height

\* positions, in the host's order, of the images of page 0 a signature matches
Hits == {i \in 1..Len(input_file.pages[1].images) :
            MatchesAny(input_file.pages[1].images[i], config.WATERMARK_PATTERNS)}

\* the matcher has run
Matched == strategy = "xref" /\ pc \in {"xref_delete", "xref_save", "returned"}

(* C8: the matcher returns the identifier of the first image, in the host's
   order, whose width and height both equal those of some signature, and
   none when there is no such image. *)
C8_FirstExactMatch ==
    Matched =>
        target_xref = IF Hits = {} THEN None
                      ELSE input_file.pages[1].images[Min(Hits)].xref

C8_Witness ==
    /\ Matched
    /\ Hits = {2}
    /\ target_xref = input_file.pages[1].images[2].xref
    /\ input_file.pages[1].images[1].width = input_file.pages[1].images[2].width
    /\ input_file.pages[1].images[1].xref # target_xref

(* C9: when page 0 holds an image of a configured size, the image strategy
   deletes that image's reference from page 0, saves and returns true,
   whatever the identifier; it returns false only when no image matched. *)
C9_MatchedImageDeleted ==
    (strategy = "xref" /\ Returned) =>
        /\ Hits # {} =>
              /\ result = True
              /\ deleted = << <<0, input_file.pages[1].images[Min(Hits)].xref>> >>
              /\ output_file.present
        /\ result = False => Hits = {}

(* C10: on a document without pages both strategies fail with
   InvalidPDFError "PDF has no pages" as the error the caller receives,
   before any detection, stream write, image deletion or save. *)
C10_EmptyDocumentError ==
    (input_file.valid /\ Len(input_file.pages) = 0 /\ pc \in {"raised", "returned"}) =>
        /\ pc = "raised"
        /\ error = NoPages
        /\ reads = {}
        /\ writes = <<>>
        /\ deleted = <<>>
        /\ ~output_file.present

\* the first invocation runs on the three-page example with this shared run
\* and this kind of content of its own
OnExample(shared, kind, before) ==
    run = 1 /\ input_file = ExampleDoc(shared, kind, before)

ExampleKinds == {Len(u) : u \in Unrelated(1)}

\* the invocation has ended
Ended == pc \in {"returned", "raised"}

(* C11: under the default configuration the three-page example whose pages
   share the run (WATERMARK TEXT) Tj in a q...Q block goes to the text
   strategy, the run is detected with frequency 3, the three blocks are
   removed, the other content is unchanged and the outcome is true. *)
C11_ExampleRemoved ==
    \A kind \in ExampleKinds : \A before \in BOOLEAN :
        (OnExample(WatermarkRun, kind, before) /\ Ended) =>
            /\ strategy = "text"
            /\ most_common = WatermarkRun
            /\ freq = 3
            /\ result = True
            /\ output_file.present
            /\ \A k \in 1..3 : output_file.streams[k] = OwnContent(k, kind)

(* C11, amended: the example goes to the text strategy; the run
   (WATERMARK TEXT) Tj, 19 bytes long, is never recorded, and when the scan
   records nothing else the outcome is false with no stream changed and no
   output written; a shared run of 34 bytes is detected with frequency 3,
   the outcome is true and no stream of the output holds the run. *)
C11_ShortRunNotRecorded ==
    \A kind \in ExampleKinds : \A before \in BOOLEAN :
        /\ (OnExample(WatermarkRun, kind, before) /\ strategy # "none") =>
              /\ strategy = "text"
              /\ pc # "raised"
              /\ \A k \in 1..Len(counter) : counter[k].key # WatermarkRun
              /\ (Returned /\ counter = <<>>) =>
                    /\ result = False
                    /\ writes = <<>>
                    /\ ~output_file.present
                    /\ doc.streams = input_file.streams
        /\ (OnExample(LongRun, kind, before) /\ strategy # "none") =>
              /\ strategy = "text"
              /\ pc # "raised"
              /\ Returned =>
                    /\ most_common = LongRun
                    /\ freq = 3
                    /\ result = True
                    /\ output_file.present
                    /\ \A k \in 1..3 : ~Contains(output_file.streams[k], LongRun)

C11_Witness ==
    /\ \E kind \in ExampleKinds : \E before \in BOOLEAN :
          OnExample(WatermarkRun, kind, before)
    /\ Returned
    /\ page_idx = 3
    /\ result = False

\* fractions a / b kept as pairs <<a, b>> with b > 0
FracEq(x, y) == x[1] * y[2] = y[1] * x[2]
FracLeq(x, y) == x[1] * y[2] <= y[1] * x[2]

\* what the host received once remove_watermark had handed over to the
\* strategy: the events behind "Validating input file", "Analyzing PDF",
\* "Selecting strategy" and "Processing with ..."
StrategyEvents == SubSeq(events, 5, Len(events))

\* the events of the image strategy
XRefEvents ==
    << [status |-> "Opening PDF", progress |-> <<1, 10>>],
       [status |-> "Finding watermark", progress |-> <<3, 10>>],
       [status |-> "Removing watermark", progress |-> <<5, 10>>],
       [status |-> "Saving document", progress |-> <<8, 10>>],
       [status |-> "Complete", progress |-> <<10, 10>>] >>

(* C12: on a successful image strategy run started through remove_watermark
   the host receives the strategy's events with the fractions 0.1, 0.3,
   0.5, 0.8 and 1.0, in that order; the last event has the fraction 1.0. *)
C12_HostReceivesStrategyFractions ==
    (strategy = "xref" /\ Returned /\ result = True) =>
        /\ Len(StrategyEvents) = Len(XRefEvents)
        /\ \A k \in 1..Len(XRefEvents) :
              /\ StrategyEvents[k].status = XRefEvents[k].status
              /\ FracEq(StrategyEvents[k].progress, XRefEvents[k].progress)
        /\ FracEq(events[Len(events)].progress, <<1, 1>>)

(* C13: within one invocation of remove_watermark the fractions the host's
   callback receives never decrease and lie in [0, 1], for both strategies,
   on the found, the not-found and the failure paths. *)
C13_FractionsMonotone ==
    \A k \in 1..Len(events) :
        /\ FracLeq(<<0, 1>>, events[k].progress)
        /\ FracLeq(events[k].progress, <<1, 1>>)
        /\ k > 1 => FracLeq(events[k - 1].progress, events[k].progress)

C13_Witness ==
    /\ strategy = "text"
    /\ Len(input_file.pages) = 3
    /\ pc = "raised"
    /\ Len(failed) = 2
    /\ \E k \in 2..Len(events) :
          /\ events[k].status = "Processing page 3/3"
          /\ ~FracEq(events[k - 1].progress, events[k].progress)

\* the error the caller received names page p as failed
Reports(e, p) ==
    \E m \in 1..Len(e.message) : e.message[m] = PageFailure(p).message[1]

(* C14: when the removal tasks of two or more pages fail in one run of the
   text strategy, every task has still run and the error the caller
   receives reports every failed page, not only the first. *)
C14_AllFailuresSurfaced ==
    (strategy = "text" /\ pc = "raised" /\ Len(failed) >= 2) =>
        /\ task_idx = Len(doc.pages)
        /\ \A k \in 1..Len(failed) : Reports(error, failed[k])

(* C15: once a strategy has opened the document, the invocation ends with
   the handle closed, on the not-found path as on the found path. *)
C15_ClosedAtEnd ==
    (strategy # "none" /\ Returned) => doc = NoDoc

\* the suffix is .pdf in some mix of upper and lower case
IsPdfInAnyCase(sfx) ==
    /\ Len(sfx) = 4
    /\ sfx[1] = "."
    /\ sfx[2] \in {"p", "P"}
    /\ sfx[3] \in {"d", "D"}
    /\ sfx[4] \in {"f", "F"}

\* the path names an existing file with a .pdf suffix
ValidPath == input_file.present /\ IsPdfInAnyCase(suffix)

(* C16: remove_watermark on a path that does not exist, or whose suffix is
   not .pdf in any case, raises InvalidPDFError before a document is
   opened, a strategy invoked or an output written; a path that exists and
   ends in .pdf in any case passes the validation. *)
C16_InvalidPathRejected ==
    pc # "idle" =>
        /\ ~ValidPath =>
              /\ pc = "raised"
              /\ error.type = "InvalidPDFError"
              /\ opens = 0
              /\ doc = NoDoc
              /\ strategy = "none"
              /\ ~output_file.present
              /\ writes = <<>>
              /\ deleted = <<>>
        /\ ValidPath => (pc = "raised" => opens > 0)

C16_Witness ==
    /\ pc = "raised"
    /\ input_file.present
    /\ suffix = <<".", "p", "d", "f", "x">>
    /\ Len(events) = 1

\* the value a configuration built from this file under this environment has
\* for a key: the environment variable when it is set (and, for an integer
\* key, is a number), else the file's value, else the default
ExpectedValue(key, config_file, env) ==
    IF /\ key \in DOMAIN ENV_VARS
       /\ IsSet(env, ENV_VARS[key])
       /\ IsInt(key) => getenv(env, ENV_VARS[key]) \in DOMAIN IntOf
    THEN IF IsInt(key) THEN IntOf[getenv(env, ENV_VARS[key])]
                       ELSE getenv(env, ENV_VARS[key])
    ELSE IF config_file # "" /\ key \in DOMAIN FileContent(config_file)
    THEN FileContent(config_file)[key]
    ELSE DEFAULT_CONFIG[key]

(* C17: every call Config(config_file) returns a configuration whose values
   are those of the given YAML file and of the environment variables as
   they are set at the time of the call, whatever calls were made before. *)
C17_ConfigReflectsCall ==
    returned.made =>
        \A key \in DOMAIN DEFAULT_CONFIG :
            returned.value[key] =
                ExpectedValue(key, returned.config_file, returned.environ)

(* C18: an update call with an absolute step sets current_step to it, one
   without adds the increment; a non-empty status replaces current_status,
   an empty one keeps it; the callback is called exactly once, with
   (current_status, current_step / total_steps). *)
C18_UpdateSetsStepAndStatus ==
    [][/\ progress'.current_step =
              IF args'.step # None THEN args'.step
              ELSE progress.current_step + args'.increment
       /\ progress'.current_status =
              IF args'.status # "" THEN args'.status ELSE progress.current_status
       /\ progress'.total_steps = progress.total_steps
       /\ progress'.callback = progress.callback
       /\ events' =
              IF progress.callback
              THEN Append(events,
                          [status |-> progress'.current_status,
                           progress |-> <<progress'.current_step, progress.total_steps>>])
              ELSE events]_vars

C18_Witness ==
    /\ Len(events) = 3
    /\ args = [status |-> "", step |-> None, increment |-> 1]
    /\ events[1] = [status |-> "Starting", progress |-> <<0, 10>>]
    /\ events[2] = [status |-> "Halfway", progress |-> <<5, 10>>]
    /\ events[3] = [status |-> "Halfway", progress |-> <<6, 10>>]

\* the offset of the terminator paired with the marker under the cursor when
\* it lies within the window, -1 when the cursor is on no marker or the
\* terminator is not found within the window
TerminatorFound ==
    LET ms == {k \in 1..Len(Markers) : Markers[k].open = scan_content[scan_i + 1]}
    IN  IF ms = {} THEN -1
        ELSE LET end == find(scan_content, Markers[Min(ms)].term, scan_i)
             IN  IF end # -1 /\ end - scan_i < config.PATTERN_SEARCH_WINDOW
                 THEN end ELSE -1

(* C19: at an opening marker the cursor jumps past the terminator only when
   a run was recorded; in every other case, a terminator within the window
   whose run is shorter than L included, it advances by exactly one byte. *)
C19_JumpOnlyWhenRecorded ==
    [][IF counter' # counter
       THEN TerminatorFound # -1 /\ scan_i' >= TerminatorFound + 4
       ELSE scan_i' = scan_i + 1]_vars

(* C19, amended: the cursor jumps past the terminator whenever the
   terminator is found within the window, whether or not the run is long
   enough to be recorded (to the byte behind the terminator for ( and <,
   one byte further for [); in every other case it advances by exactly one
   byte and records nothing. *)
C19_JumpWheneverTerminatorFound ==
    [][IF TerminatorFound # -1
       THEN scan_i' = TerminatorFound
                        + (IF scan_content[scan_i + 1] = "[" THEN 5 ELSE 4)
       ELSE scan_i' = scan_i + 1 /\ counter' = counter]_vars

C19_Witness ==
    /\ scan_i = 6
    /\ Len(scan_content) > 6
    /\ SubSeq(scan_content, 1, 6) = RunA
    /\ config.MIN_PATTERN_LENGTH = 7
    /\ counter = <<>>

(* C20: every run in the frequency table starts at its opening marker and
   ends with the last byte of the terminator paired with the marker; no
   byte behind the terminator belongs to the run. *)
C20_RunEndsWithTerminator ==
    \A k \in 1..Len(counter) :
        LET key == counter[k].key
        IN  \E m \in 1..Len(Markers) :
                /\ key[1] = Markers[m].open
                /\ find(key, Markers[m].term, 0) = Len(key) - Len(Markers[m].term)

(* C21: a removal task calls update_stream on a stream only if it removed at
   least one block from that same stream: every stream a task writes differs
   from what it held before the task. *)
C21_WrittenOnlyIfBlockRemoved ==
    [][run' = run =>
          \A k \in (Len(writes) + 1)..Len(writes') :
              doc'.streams[writes'[k]] # doc.streams[writes'[k]]]_vars

\* save operators minus restore operators among the first k bytes of s
Depth(s, k) ==
    Cardinality({j \in 1..k : s[j] = "q"}) - Cardinality({j \in 1..k : s[j] = "Q"})

\* every Q restores an earlier q and every q is restored
Balanced(s) ==
    /\ \A k \in 1..Len(s) : Depth(s, k) >= 0
    /\ Depth(s, Len(s)) = 0

\* the removal tasks of a text strategy run have all run, none raised
RemovalDone ==
    strategy = "text" /\ pc = "remove" /\ TasksDone(doc, task_idx) /\ failed = <<>>

(* C22: every block the removal deletes from a stream is a balanced q...Q
   block that holds the winning run, so a stream that was balanced before
   the removal is balanced after it, nested blocks included. *)
C22_BalancedAfterRemoval ==
    RemovalDone =>
        \A x \in DOMAIN input_file.streams :
            LET s == input_file.streams[x]
            IN  /\ \A k \in 1..Len(findall(s)) :
                      Contains(findall(s)[k], target_str) => Balanced(findall(s)[k])
                /\ Balanced(s) => Balanced(doc.streams[x])

(* C23: in a text strategy run the document is saved only after the removal
   task of every page has run, and it is not saved when a task failed. *)
C23_SavedAfterEveryTask ==
    (strategy = "text" /\ (output_file.present \/ result = True)) =>
        /\ task_idx = Len(input_file.pages)
        /\ failed = <<>>

C23_Witness ==
    /\ strategy = "text"
    /\ output_file.present
    /\ Len(input_file.pages) = 3
    /\ Len(writes) = 3

\* calls of the host's callback with this status
Count(evs, status) == Cardinality({k \in 1..Len(evs) : evs[k].status = status})

\* calls of a strategy's remove made by the invocation: each reports
\* "Opening PDF" first
Invocations == Count(events, "Opening PDF")

\* statuses only the image strategy and only the text strategy report
RanXRef == Count(events, "Finding watermark") > 0
RanText == Count(events, "Analyzing document") > 0

(* C24: an invocation that passes the input validation invokes the remove
   of exactly one strategy, exactly once; a not-found or failed result goes
   to the caller without a retry and without the other strategy. *)
C24_ExactlyOneStrategyOnce ==
    (Ended /\ ValidPath) =>
        /\ Invocations = 1
        /\ ~(RanXRef /\ RanText)

(* C24, amended: an invocation that passes the input validation invokes the
   remove of at most one strategy, at most once: exactly once when the
   document opens for the analysis, and not at all when fitz.open rejects
   the file, whose exception goes to the caller. *)
C24_AtMostOneStrategyOnce ==
    /\ Invocations <= 1
    /\ ~(RanXRef /\ RanText)
    /\ opens <= 2
    /\ (Ended /\ ValidPath) =>
          IF input_file.valid
          THEN /\ Invocations = 1
               /\ strategy # "none"
               /\ strategy = "xref" => ~RanText
               /\ strategy = "text" => ~RanXRef
          ELSE /\ Invocations = 0
               /\ strategy = "none"
               /\ pc = "raised"
               /\ error = FileDataError

C24_Witness ==
    /\ Returned
    /\ result = False
    /\ strategy = "xref"
    /\ Invocations = 1
    /\ RanXRef

(* C25: in the anchor-mode scan a buffer that is empty or holds no
   occurrence of the anchor yields an empty result, and no error is raised. *)
C25_NoAnchorEmptyResult ==
    (analysis.called /\ ~Contains(cont, LegacyPattern)) =>
        /\ analysis.error = NoError
        /\ analysis.most_frequent = NoBytes
        /\ analysis.frequency = 0

\* the streams page p of d lists
Listed(d, p) == {d.pages[p + 1].contents[j] : j \in 1..Len(d.pages[p + 1].contents)}

\* the task of page p has just run
Ran(p) == p \in pending /\ p \notin pending'

\* the task writes streams of its own page only
WritesOwnStreams(p) ==
    \A k \in (Len(writes) + 1)..Len(writes') : writes'[k] \in Listed(doc, p)

\* whatever the order was, each stream ends as it does in page order
SameAsInPageOrder ==
    (pending # {} /\ pending' = {}) =>
        doc'.streams = InPageOrder(input_file, 0, target_str, faults).streams

(* C26: the removal task of page p writes only the streams listed for page
   p and leaves the streams of every other page unchanged, so the final
   content of each stream does not depend on the order of the tasks. *)
C26_OtherPagesUntouched ==
    [][\A p \in 0..(Len(input_file.pages) - 1) :
          Ran(p) =>
              /\ WritesOwnStreams(p)
              /\ \A o \in 0..(Len(doc.pages) - 1) :
                    o # p => \A x \in Listed(doc, o) :
                                doc'.streams[x] = doc.streams[x]
              /\ SameAsInPageOrder]_vars

(* C26, amended: the removal task of page p writes only the streams listed
   for page p and leaves every stream not listed for page p unchanged, so,
   when no task fails, the final content of each stream does not depend on
   the order of the tasks. *)
C26_UnlistedStreamsUntouched ==
    [][\A p \in 0..(Len(input_file.pages) - 1) :
          Ran(p) =>
              /\ WritesOwnStreams(p)
              /\ \A x \in DOMAIN doc.streams :
                    x \notin Listed(doc, p) => doc'.streams[x] = doc.streams[x]
              /\ failed' = <<>> => SameAsInPageOrder]_vars

C26_Witness ==
    /\ pc = "remove"
    /\ pending = {}
    /\ failed = <<>>
    /\ Listed(input_file, 0) = {1, 2}
    /\ Listed(input_file, 1) = {2}
    /\ writes = <<2, 1, 2>>

\* page tasks handed to asyncio.gather that have not finished
InFlight == Cardinality(pending)

(* C27: during the removal phase of a text strategy run the number of page
   tasks dispatched and not finished never exceeds MAX_CONCURRENT_PAGES. *)
C27_BoundedConcurrency == InFlight <= MAX_CONCURRENT_PAGES

\* the while loop of the scanner has ended
ScanEnded == scan_i >= Len(scan_content)

(* C28: the bracket-mode scan of a finite content stream terminates: every
   iteration of the loop moves the cursor forward, in each of the three
   marker branches and in the one-byte step, and the loop ends. *)
C28_ScanTerminates ==
    /\ [][scan_i' > scan_i]_vars
    /\ <>ScanEnded

C28_Witness ==
    /\ ScanEnded
    /\ scan_i = Len(scan_content) + 1
    /\ Len(counter) = 2

\* the last request was a download of a job recorded as completed
DownloadOfCompleted ==
    /\ response.job_id # 0
    /\ current_jobs[response.job_id].status = "completed"

(* C29: a download of a job the server recorded as completed returns a file
   that the processing of that job's own upload produced, also when no
   watermark was found and when several jobs upload the same file name. *)
C29_DownloadIsOwnOutput ==
    DownloadOfCompleted =>
        /\ response.code = 200
        /\ response.body.job = response.job_id

\* the removal was called on file k of the batch, ran to its end and returned true
RemovedFrom(k) ==
    /\ batch.ran[k] # NotRun
    /\ ~batch.ran[k].raised
    /\ batch.ran[k].result = True

(* C30: in batch mode of the command line, sequential or parallel, a file is
   counted in results["success"] only if the watermark removal ran to
   completion on that file and returned true. *)
C30_SuccessOnlyIfRemoved ==
    /\ \A k \in 1..Len(batch.files) : batch.tally[k] = "success" => RemovedFrom(k)
    /\ batch.results.success = Cardinality({k \in 1..Len(batch.files) : batch.tally[k] = "success"})

====
